---------------------------- MODULE Spec2Model ----------------------------
(***************************************************************************)
(* Model of the S-box research engine: GF(2^8) arithmetic, affine S-box    *)
(* construction and validation, AES-128 with an injected S-box (single     *)
(* block and bulk), and the Walsh-Hadamard based metrics.                  *)
(***************************************************************************)
EXTENDS Integers, Sequences, FiniteSets, TLC

Byte == 0..255

(***************************************************************************)
(* A Python list built by a comprehension, materialised element by element *)
(* (index i of the list is position i + 1 of the sequence).                *)
(***************************************************************************)
list(s) == s \o <<>>

(***************************************************************************)
(* Python's ^ and & on non-negative integers: bit by bit for two hex       *)
(* digits, and hex digit by hex digit for longer operands.                 *)
(***************************************************************************)
RECURSIVE xor_bits(_, _)
xor_bits(a, b) ==
    IF a = 0 THEN b
    ELSE IF b = 0 THEN a
    ELSE ((a + b) % 2) + 2 * xor_bits(a \div 2, b \div 2)

RECURSIVE and_bits(_, _)
and_bits(a, b) ==
    IF a = 0 \/ b = 0 THEN 0
    ELSE ((a % 2) * (b % 2)) + 2 * and_bits(a \div 2, b \div 2)

xor_digits == list([i \in 1..16 |-> list([j \in 1..16 |-> xor_bits(i - 1, j - 1)])])

and_digits == list([i \in 1..16 |-> list([j \in 1..16 |-> and_bits(i - 1, j - 1)])])

RECURSIVE XOR(_, _)
XOR(a, b) ==
    IF a = 0 THEN b
    ELSE IF b = 0 THEN a
    ELSE xor_digits[(a % 16) + 1][(b % 16) + 1] + 16 * XOR(a \div 16, b \div 16)

RECURSIVE AND(_, _)
AND(a, b) ==
    IF a = 0 \/ b = 0 THEN 0
    ELSE and_digits[(a % 16) + 1][(b % 16) + 1] + 16 * AND(a \div 16, b \div 16)

(***************************************************************************)
(* core/gf256.py                                                           *)
(***************************************************************************)
IRREDUCIBLE_POLY == 283

gf_add(a, b) == XOR(a, b)

\* one pass of the while loop of gf_mul reducing by x^8 + x^4 + x^3 + x^2 + 1
gf_mul_body_other_poly(st) ==
    [result |-> IF st.b % 2 = 1 THEN XOR(st.result, st.a) ELSE st.result,
     a      |-> IF ((st.a * 2) \div 256) % 2 = 1
                THEN XOR(st.a * 2, 285) ELSE st.a * 2,
     b      |-> st.b \div 2]

\* one pass of the while loop of gf_mul; st holds the loop's variables
\* result, a, b
gf_mul_body(st) ==
    [result |-> IF st.b % 2 = 1 THEN XOR(st.result, st.a) ELSE st.result,
     a      |-> IF ((st.a * 2) \div 256) % 2 = 1
                THEN XOR(st.a * 2, IRREDUCIBLE_POLY) ELSE st.a * 2,
     b      |-> st.b \div 2]

\* the while loop of gf_mul
RECURSIVE gf_mul_loop(_)
gf_mul_loop(st) ==
    IF st.b = 0 THEN st.result ELSE gf_mul_loop(gf_mul_body(st))

gf_mul(a, b) == gf_mul_loop([result |-> 0, a |-> a, b |-> b])

\* the while loop of gf_pow; st holds result, base, exp
RECURSIVE gf_pow_loop(_)
gf_pow_loop(st) ==
    IF st.exp = 0 THEN st.result
    ELSE gf_pow_loop([result |-> IF st.exp % 2 = 1
                                 THEN gf_mul(st.result, st.base) ELSE st.result,
                      base   |-> gf_mul(st.base, st.base),
                      exp    |-> st.exp \div 2])

gf_pow(base, exp) ==
    IF exp = 0 THEN 1 ELSE gf_pow_loop([result |-> 1, base |-> base, exp |-> exp])

\* gf_inverse with the exponent 2^8 - 1 in the place of 2^8 - 2
gf_inverse_unit(a) == IF a = 0 THEN 0 ELSE gf_pow(a, 255)

gf_inverse(a) == IF a = 0 THEN 0 ELSE gf_pow(a, 254)

generate_inverse_table == list([i \in 1..256 |-> gf_inverse(i - 1)])

\* module-level table, computed once at import
INVERSE_TABLE == generate_inverse_table

get_inverse(a) == INVERSE_TABLE[a + 1]

(***************************************************************************)
(* core/affine.py                                                          *)
(***************************************************************************)
\* int_to_bits with the most significant bit first
int_to_bits_msb_first(val) == list([i \in 1..8 |-> (val \div (2 ^ (8 - i))) % 2])

\* bit i of val at position i + 1, least significant bit first
int_to_bits(val) == list([i \in 1..8 |-> (val \div (2 ^ (i - 1))) % 2])

\* bits_to_int whose loop stops at range(7)
bits_to_int_range7(bits) ==
    (IF bits[1] # 0 THEN 1 ELSE 0) + (IF bits[2] # 0 THEN 2 ELSE 0)
  + (IF bits[3] # 0 THEN 4 ELSE 0) + (IF bits[4] # 0 THEN 8 ELSE 0)
  + (IF bits[5] # 0 THEN 16 ELSE 0) + (IF bits[6] # 0 THEN 32 ELSE 0)
  + (IF bits[7] # 0 THEN 64 ELSE 0)

bits_to_int(bits) ==
    (IF bits[1] # 0 THEN 1 ELSE 0) + (IF bits[2] # 0 THEN 2 ELSE 0)
  + (IF bits[3] # 0 THEN 4 ELSE 0) + (IF bits[4] # 0 THEN 8 ELSE 0)
  + (IF bits[5] # 0 THEN 16 ELSE 0) + (IF bits[6] # 0 THEN 32 ELSE 0)
  + (IF bits[7] # 0 THEN 64 ELSE 0) + (IF bits[8] # 0 THEN 128 ELSE 0)

\* np.dot of one uint8 matrix row with the uint8 bit vector (8-bit wrap)
dot_row(row, x_bits) ==
    ( row[1] * x_bits[1] + row[2] * x_bits[2] + row[3] * x_bits[3]
    + row[4] * x_bits[4] + row[5] * x_bits[5] + row[6] * x_bits[6]
    + row[7] * x_bits[7] + row[8] * x_bits[8] ) % 256

apply_affine_transform(inverse_val, matrix, constant) ==
    LET x_bits == int_to_bits(inverse_val)
        c_bits == int_to_bits(constant)
        Mx     == list([i \in 1..8 |-> dot_row(matrix[i], x_bits) % 2])
        result_bits == list([i \in 1..8 |-> (Mx[i] + c_bits[i]) % 2])
    IN  bits_to_int(result_bits)

\* sbox_flat[i*16:(i+1)*16] for i in range(16): the 16x16 row-major grid
grid16(flat) == list([r \in 1..16 |-> list([c \in 1..16 |-> flat[(r - 1) * 16 + c]])])

\* the rows of a 16x16 grid joined into one flat 256-list
flatten16(grid) == list([k \in 1..256 |-> grid[((k - 1) \div 16) + 1][((k - 1) % 16) + 1]])

construct_sbox(matrix, constant) ==
    LET sbox_flat ==
            list([k \in 1..256 |->
                     apply_affine_transform(get_inverse(k - 1), matrix, constant)])
    IN  grid16(sbox_flat)

\* the loop "for x in range(256): inv_sbox_flat[sbox_flat[x]] = x", run in
\* index order (first half of the range, then second half); st holds the
\* loop's sbox_flat, inv_sbox_flat and the index range lo..hi-1 still to run
RECURSIVE inv_sbox_loop(_)
inv_sbox_loop(st) ==
    IF st.hi <= st.lo THEN st.inv_sbox_flat
    ELSE IF st.hi = st.lo + 1
    THEN [st.inv_sbox_flat EXCEPT ![st.sbox_flat[st.lo + 1] + 1] = st.lo]
    ELSE LET mid == (st.lo + st.hi) \div 2
         IN  inv_sbox_loop(
                 [sbox_flat     |-> st.sbox_flat,
                  inv_sbox_flat |-> inv_sbox_loop([st EXCEPT !.hi = mid]),
                  lo            |-> mid,
                  hi            |-> st.hi])

construct_inverse_sbox(matrix, constant) ==
    LET sbox          == construct_sbox(matrix, constant)
        sbox_flat     == flatten16(sbox)
        inv_sbox_flat == inv_sbox_loop([sbox_flat     |-> sbox_flat,
                                        inv_sbox_flat |-> list([k \in 1..256 |-> 0]),
                                        lo |-> 0, hi |-> 256])
    IN  grid16(inv_sbox_flat)

\* np.linalg.matrix_rank of an 8x8 float64 matrix with 0/1 entries: its rank
\* over the reals. The SVD tolerance (about 1e-14) lies far below the least
\* non-zero singular value of such a matrix (its non-zero minors are integers),
\* so the estimate is the exact rank, computed here by fraction-free
\* elimination; st holds the matrix M, the rows already reduced, the column
\* under elimination and the previous pivot.
RECURSIVE matrix_rank_loop(_)
matrix_rank_loop(st) ==
    IF st.col > 8 \/ st.done = 8 THEN st.done
    ELSE LET top  == st.done + 1
             rows == {i \in top..8 : st.M[i][st.col] # 0}
         IN  IF rows = {}
             THEN matrix_rank_loop([st EXCEPT !.col = st.col + 1])
             ELSE LET p   == CHOOSE i \in rows : \A k \in rows : i <= k
                      Sw  == list([i \in 1..8 |-> IF i = top THEN st.M[p]
                                                  ELSE IF i = p THEN st.M[top]
                                                  ELSE st.M[i]])
                      piv == Sw[top][st.col]
                      El  == list([i \in 1..8 |->
                                 IF i <= top THEN Sw[i]
                                 ELSE list([j \in 1..8 |->
                                        (piv * Sw[i][j] - Sw[i][st.col] * Sw[top][j])
                                            \div st.prev])])
                  IN  matrix_rank_loop([M |-> El, done |-> top,
                                        col |-> st.col + 1, prev |-> piv])

matrix_rank(M) == matrix_rank_loop([M |-> M, done |-> 0, col |-> 1, prev |-> 1])

\* the result triple (is_valid, error_message, details); the message is
\* represented by the check that produced it
validate_matrix(matrix) ==
    IF Len(matrix) # 8
    THEN [is_valid |-> FALSE, error |-> "rows", details |-> [rows |-> Len(matrix)]]
    ELSE IF \E i \in 1..8 : Len(matrix[i]) # 8
    THEN LET i == CHOOSE r \in 1..8 :
                     /\ Len(matrix[r]) # 8
                     /\ \A q \in 1..(r - 1) : Len(matrix[q]) = 8
         IN  [is_valid |-> FALSE, error |-> "cols",
              details |-> [row |-> i, cols |-> Len(matrix[i])]]
    ELSE IF \E i \in 1..8, j \in 1..8 : matrix[i][j] \notin {0, 1}
    THEN LET k == CHOOSE n \in 0..63 :
                     /\ matrix[(n \div 8) + 1][(n % 8) + 1] \notin {0, 1}
                     /\ \A q \in 0..(n - 1) :
                            matrix[(q \div 8) + 1][(q % 8) + 1] \in {0, 1}
         IN  [is_valid |-> FALSE, error |-> "binary",
              details |-> [row |-> (k \div 8) + 1, col |-> (k % 8) + 1,
                           value |-> matrix[(k \div 8) + 1][(k % 8) + 1]]]
    ELSE LET rank == matrix_rank(matrix)
         IN  IF rank # 8
             THEN [is_valid |-> FALSE, error |-> "rank", details |-> [rank |-> rank]]
             ELSE [is_valid |-> TRUE, error |-> "none",
                   details |-> [rank |-> 8, invertible |-> TRUE]]

(***************************************************************************)
(* core/aes.py                                                             *)
(***************************************************************************)
\* the loop "for i, val in enumerate(flat_sbox): inv_flat[val] = i", run in
\* index order; st holds flat_sbox, inv_flat and the range lo..hi-1 still to run
RECURSIVE inv_flat_loop(_)
inv_flat_loop(st) ==
    IF st.hi <= st.lo THEN st.inv_flat
    ELSE IF st.hi = st.lo + 1
    THEN LET i   == st.lo
             val == st.flat_sbox[i + 1]
         IN  [st.inv_flat EXCEPT ![val + 1] = i]
    ELSE LET mid == (st.lo + st.hi) \div 2
         IN  inv_flat_loop([flat_sbox |-> st.flat_sbox,
                            inv_flat  |-> inv_flat_loop([st EXCEPT !.hi = mid]),
                            lo        |-> mid,
                            hi        |-> st.hi])

\* generate_inverse_sbox with index and value exchanged (inv_flat[i] = val)
generate_inverse_sbox_swapped(sbox) ==
    LET flat_sbox == list([k \in 1..256 |-> sbox[((k - 1) \div 16) + 1][((k - 1) % 16) + 1]])
    IN  list([i \in 1..16 |-> list([j \in 1..16 |-> flat_sbox[(i - 1) * 16 + j]])])

generate_inverse_sbox(sbox) ==
    LET flat_sbox == list([k \in 1..256 |-> sbox[((k - 1) \div 16) + 1][((k - 1) % 16) + 1]])
        inv_flat  == inv_flat_loop([flat_sbox |-> flat_sbox,
                                    inv_flat  |-> list([k \in 1..256 |-> 0]),
                                    lo |-> 0, hi |-> 256])
    IN  list([i \in 1..16 |-> list([j \in 1..16 |-> inv_flat[(i - 1) * 16 + j]])])

BLOCK_SIZE == 16

KEY_SIZE == 16

NUM_ROUNDS == 10

RCON == <<1, 2, 4, 8, 16, 32, 64, 128, 27, 54>>

\* a call that returns v, and a call that raises the exception e
Return(v) == [exc |-> "none", val |-> v]

Raise(e) == [exc |-> e, val |-> <<>>]

\* sbox[row][col] for the byte's high and low nibble
sbox_lookup(sbox, byte_val) ==
    sbox[((byte_val \div 16) % 16) + 1][(byte_val % 16) + 1]

sub_bytes(state, sbox) ==
    list([i \in 1..4 |-> list([j \in 1..4 |-> sbox_lookup(sbox, state[i][j])])])

inv_sub_bytes(state, inv_sbox) == sub_bytes(state, inv_sbox)

shift_rows(state) ==
    << state[1],
       SubSeq(state[2], 2, 4) \o SubSeq(state[2], 1, 1),
       SubSeq(state[3], 3, 4) \o SubSeq(state[3], 1, 2),
       SubSeq(state[4], 4, 4) \o SubSeq(state[4], 1, 3) >>

\* InvShiftRows rotating in the direction of ShiftRows
inv_shift_rows_left(state) == shift_rows(state)

inv_shift_rows(state) ==
    << state[1],
       SubSeq(state[2], 4, 4) \o SubSeq(state[2], 1, 3),
       SubSeq(state[3], 3, 4) \o SubSeq(state[3], 1, 2),
       SubSeq(state[4], 2, 4) \o SubSeq(state[4], 1, 1) >>

\* one column (s0, s1, s2, s3) of MixColumns
mix_column(s0, s1, s2, s3) ==
    << XOR(XOR(XOR(gf_mul(2, s0), gf_mul(3, s1)), s2), s3),
       XOR(XOR(XOR(s0, gf_mul(2, s1)), gf_mul(3, s2)), s3),
       XOR(XOR(XOR(s0, s1), gf_mul(2, s2)), gf_mul(3, s3)),
       XOR(XOR(XOR(gf_mul(3, s0), s1), s2), gf_mul(2, s3)) >>

mix_columns(state) ==
    LET cols == list([col \in 1..4 |->
                    mix_column(state[1][col], state[2][col], state[3][col], state[4][col])])
    IN  list([i \in 1..4 |-> list([col \in 1..4 |-> cols[col][i]])])

\* one column (s0, s1, s2, s3) of InvMixColumns
inv_mix_column(s0, s1, s2, s3) ==
    << XOR(XOR(XOR(gf_mul(14, s0), gf_mul(11, s1)), gf_mul(13, s2)), gf_mul(9, s3)),
       XOR(XOR(XOR(gf_mul(9, s0), gf_mul(14, s1)), gf_mul(11, s2)), gf_mul(13, s3)),
       XOR(XOR(XOR(gf_mul(13, s0), gf_mul(9, s1)), gf_mul(14, s2)), gf_mul(11, s3)),
       XOR(XOR(XOR(gf_mul(11, s0), gf_mul(13, s1)), gf_mul(9, s2)), gf_mul(14, s3)) >>

\* InvMixColumns multiplying by the forward matrix
inv_mix_columns_forward(state) == mix_columns(state)

inv_mix_columns(state) ==
    LET cols == list([col \in 1..4 |->
                    inv_mix_column(state[1][col], state[2][col], state[3][col], state[4][col])])
    IN  list([i \in 1..4 |-> list([col \in 1..4 |-> cols[col][i]])])

add_round_key(state, round_key) ==
    list([i \in 1..4 |-> list([j \in 1..4 |-> XOR(state[i][j], round_key[i][j])])])

\* the loop "for i in range(4, 44)" of key_expansion; st holds key_words
\* (word i at position i + 1) and the sbox; i = len(key_words)
RECURSIVE key_words_loop(_)
key_words_loop(st) ==
    LET i == Len(st.key_words)
    IN  IF i >= 44 THEN st.key_words
        ELSE LET prev == st.key_words[i]
                 rot  == SubSeq(prev, 2, 4) \o SubSeq(prev, 1, 1)
                 sub  == list([j \in 1..4 |-> sbox_lookup(st.sbox, rot[j])])
                 temp == IF i % 4 = 0
                         THEN [sub EXCEPT ![1] = XOR(sub[1], RCON[(i \div 4) - 1 + 1])]
                         ELSE prev
                 new_word == list([j \in 1..4 |-> XOR(st.key_words[i - 4 + 1][j], temp[j])])
             IN  key_words_loop([key_words |-> Append(st.key_words, new_word),
                                 sbox      |-> st.sbox])

\* key_expansion with SubWord left out: every byte is substituted by itself
key_expansion_no_sub(key, sbox) ==
    LET first     == list([i \in 1..4 |-> list([j \in 1..4 |-> key[(i - 1) * 4 + j]])])
        key_words == key_words_loop([key_words |-> first,
                                     sbox |-> grid16(list([k \in 1..256 |-> k - 1]))])
    IN  list([r \in 1..11 |->
            list([row \in 1..4 |->
                list([col \in 1..4 |-> key_words[(r - 1) * 4 + col][row]])])])

\* key_expansion with the words laid out as the rows of a round key
key_expansion_row_major(key, sbox) ==
    LET first     == list([i \in 1..4 |-> list([j \in 1..4 |-> key[(i - 1) * 4 + j]])])
        key_words == key_words_loop([key_words |-> first, sbox |-> sbox])
    IN  list([r \in 1..11 |->
            list([row \in 1..4 |->
                list([col \in 1..4 |-> key_words[(r - 1) * 4 + row][col]])])])

key_expansion(key, sbox) ==
    LET first     == list([i \in 1..4 |-> list([j \in 1..4 |-> key[(i - 1) * 4 + j]])])
        key_words == key_words_loop([key_words |-> first, sbox |-> sbox])
    IN  list([r \in 1..11 |->
            list([row \in 1..4 |->
                list([col \in 1..4 |-> key_words[(r - 1) * 4 + col][row]])])])

bytes_to_state(data) ==
    list([row \in 1..4 |-> list([col \in 1..4 |-> data[(col - 1) * 4 + row]])])

state_to_bytes(state) ==
    list([k \in 1..16 |-> state[((k - 1) % 4) + 1][((k - 1) \div 4) + 1]])

\* the main rounds "for round_num in range(1, NUM_ROUNDS)" of encryption;
\* st holds state and round_num
RECURSIVE encrypt_rounds(_, _, _)
encrypt_rounds(st, sbox, round_keys) ==
    IF st.round_num >= NUM_ROUNDS THEN st.state
    ELSE LET s1 == sub_bytes(st.state, sbox)
             s2 == shift_rows(s1)
             s3 == mix_columns(s2)
             s4 == add_round_key(s3, round_keys[st.round_num + 1])
         IN  encrypt_rounds([state |-> s4, round_num |-> st.round_num + 1],
                            sbox, round_keys)

\* the main rounds "for round_num in range(NUM_ROUNDS - 1, 0, -1)" of decryption
RECURSIVE decrypt_rounds(_, _, _)
decrypt_rounds(st, inv_sbox, round_keys) ==
    IF st.round_num <= 0 THEN st.state
    ELSE LET s1 == add_round_key(st.state, round_keys[st.round_num + 1])
             s2 == inv_mix_columns(s1)
             s3 == inv_shift_rows(s2)
             s4 == inv_sub_bytes(s3, inv_sbox)
         IN  decrypt_rounds([state |-> s4, round_num |-> st.round_num - 1],
                            inv_sbox, round_keys)

aes_encrypt_block_fast(plaintext, sbox, round_keys) ==
    IF Len(plaintext) # BLOCK_SIZE THEN Raise("ValueError")
    ELSE LET state0 == bytes_to_state(plaintext)
             state1 == add_round_key(state0, round_keys[1])
             state2 == encrypt_rounds([state |-> state1, round_num |-> 1],
                                      sbox, round_keys)
             state3 == sub_bytes(state2, sbox)
             state4 == shift_rows(state3)
             state5 == add_round_key(state4, round_keys[NUM_ROUNDS + 1])
         IN  Return(state_to_bytes(state5))

aes_decrypt_block_fast(ciphertext, inv_sbox, round_keys) ==
    IF Len(ciphertext) # BLOCK_SIZE THEN Raise("ValueError")
    ELSE LET state0 == bytes_to_state(ciphertext)
             state1 == add_round_key(state0, round_keys[NUM_ROUNDS + 1])
             state2 == inv_shift_rows(state1)
             state3 == inv_sub_bytes(state2, inv_sbox)
             state4 == decrypt_rounds([state |-> state3, round_num |-> NUM_ROUNDS - 1],
                                      inv_sbox, round_keys)
             state5 == add_round_key(state4, round_keys[1])
         IN  Return(state_to_bytes(state5))

\* aes_encrypt_block rejecting only the keys that are too short: a longer
\* key is used up to its 16th byte
aes_encrypt_block_long_key(plaintext, key, sbox) ==
    IF Len(plaintext) # BLOCK_SIZE THEN Raise("ValueError")
    ELSE IF Len(key) < KEY_SIZE THEN Raise("ValueError")
    ELSE aes_encrypt_block_fast(plaintext, sbox, key_expansion(key, sbox))

aes_encrypt_block(plaintext, key, sbox) ==
    IF Len(plaintext) # BLOCK_SIZE THEN Raise("ValueError")
    ELSE IF Len(key) # KEY_SIZE THEN Raise("ValueError")
    ELSE LET round_keys == key_expansion(key, sbox)
             state0 == bytes_to_state(plaintext)
             state1 == add_round_key(state0, round_keys[1])
             state2 == encrypt_rounds([state |-> state1, round_num |-> 1],
                                      sbox, round_keys)
             state3 == sub_bytes(state2, sbox)
             state4 == shift_rows(state3)
             state5 == add_round_key(state4, round_keys[NUM_ROUNDS + 1])
         IN  Return(state_to_bytes(state5))

aes_decrypt_block(ciphertext, key, sbox) ==
    IF Len(ciphertext) # BLOCK_SIZE THEN Raise("ValueError")
    ELSE IF Len(key) # KEY_SIZE THEN Raise("ValueError")
    ELSE LET inv_sbox   == generate_inverse_sbox(sbox)
             round_keys == key_expansion(key, sbox)
             state0 == bytes_to_state(ciphertext)
             state1 == add_round_key(state0, round_keys[NUM_ROUNDS + 1])
             state2 == inv_shift_rows(state1)
             state3 == inv_sub_bytes(state2, inv_sbox)
             state4 == decrypt_rounds([state |-> state3, round_num |-> NUM_ROUNDS - 1],
                                      inv_sbox, round_keys)
             state5 == add_round_key(state4, round_keys[1])
         IN  Return(state_to_bytes(state5))

(***************************************************************************)
(* core/metrics.py and test_wht.py: the Walsh-Hadamard transform.          *)
(*                                                                         *)
(* walsh_hadamard_transform is checked in with an unresolved merge: its    *)
(* body holds the two sides of the conflict (HEAD, lines 56-70, and        *)
(* c1b06dd, lines 72-86). The program is the file with either side kept;   *)
(* wht_side is the side kept.                                              *)
\* bytes([v] * count)
bytes_of(v, count) == list([k \in 1..count |-> v])

\* pkcs7_pad with the padding length taken modulo the block size: no padding
\* for an aligned input
pkcs7_pad_modulo(data, block_size) ==
    data \o bytes_of((block_size - (Len(data) % block_size)) % block_size,
                     (block_size - (Len(data) % block_size)) % block_size)

\* padding_len = block_size - (len(data) % block_size) is never 0, so the
\* branch that resets it to block_size is never taken
pkcs7_pad(data, block_size) ==
    LET padding_len == block_size - (Len(data) % block_size)
    IN  IF padding_len = 0
        THEN data \o bytes_of(block_size, block_size)
        ELSE data \o bytes_of(padding_len, padding_len)

\* the slice data[:stop] for a stop that may be negative (counted from the
\* end) or zero
slice_to(data, stop) ==
    IF stop < 0
    THEN SubSeq(data, 1, IF Len(data) + stop < 0 THEN 0 ELSE Len(data) + stop)
    ELSE SubSeq(data, 1, IF stop > Len(data) THEN Len(data) ELSE stop)

\* data[-(i + 1)]
from_end(data, i) == data[Len(data) - i]

\* "return data[:-padding_len]": -padding_len is 0 when padding_len is 0, and
\* data[:0] is empty
pkcs7_unpad(data) ==
    IF data = <<>> THEN Raise("ValueError")
    ELSE LET padding_len == from_end(data, 0)
         IN  IF padding_len > Len(data) \/ padding_len > BLOCK_SIZE
             THEN Raise("ValueError")
             ELSE IF \E i \in 0..(padding_len - 1) : from_end(data, i) # padding_len
             THEN Raise("ValueError")
             ELSE Return(slice_to(data, 0 - padding_len))

(***************************************************************************)
VARIABLE wht_side

MergeSides == {"HEAD", "c1b06dd"}

\* [1 - 2 * f for f in func]  and  1 - 2 * wht: 0/1 becomes 1/-1
to_signs(func) == list([k \in 1..Len(func) |-> 1 - 2 * func[k]])

\* one pass "for i in range(0, n, h * 2): for j in range(i, i + h)" of the
\* explicit butterfly: x = wht[j]; y = wht[j + h]; wht[j] = x + y;
\* wht[j + h] = x - y. The pairs (j, j + h) of one pass are disjoint, so each
\* position is written once, from the values the pass started with.
butterfly_pass(wht, n, h) ==
    list([k \in 1..n |->
             IF ((k - 1) \div h) % 2 = 0
             THEN wht[k] + wht[k + h]
             ELSE wht[k - h] - wht[k]])

\* one pass of the blocked form: x = wht[:, 0, :] and y = wht[:, 1, :] are
\* views into wht, not copies. "wht[:, 0, :] = x + y" stores the sums through
\* the array x looks at, so the "x - y" evaluated next is (x + y) - y, and
\* wht[:, 1, :] receives the old x. In the (n / 2h, 2, h) shape, position
\* (i, 0, j) is flat index 2hi + j and (i, 1, j) is flat index 2hi + h + j.
blocked_pass(wht, n, h) ==
    list([k \in 1..n |->
             IF ((k - 1) \div h) % 2 = 0
             THEN wht[k] + wht[k + h]
             ELSE (wht[k - h] + wht[k]) - wht[k]])

\* "h = 1; while h < n: ...; h *= 2" around the explicit pass; st holds wht, n, h
RECURSIVE butterfly_loop(_)
butterfly_loop(st) ==
    IF st.h >= st.n THEN st.wht
    ELSE butterfly_loop([wht |-> butterfly_pass(st.wht, st.n, st.h),
                         n   |-> st.n,
                         h   |-> st.h * 2])

\* the same loop around the blocked pass
RECURSIVE blocked_loop(_)
blocked_loop(st) ==
    IF st.h >= st.n THEN st.wht
    ELSE blocked_loop([wht |-> blocked_pass(st.wht, st.n, st.h),
                       n   |-> st.n,
                       h   |-> st.h * 2])

\* side HEAD of walsh_hadamard_transform. The float64 array holds sums of at
\* most 256 terms 1 or -1, which float64 represents exactly, so int(w) is the
\* integer the loop computed.
walsh_hadamard_transform_HEAD(func) ==
    LET n   == Len(func)
        wht == butterfly_loop([wht |-> to_signs(func), n |-> n, h |-> 1])
    IN  list([k \in 1..n |-> wht[k]])

\* side c1b06dd of walsh_hadamard_transform
walsh_hadamard_transform_c1b06dd(func) ==
    LET n == Len(func)
    IN  blocked_loop([wht |-> to_signs(func), n |-> n, h |-> 1])

walsh_hadamard_transform(func) ==
    IF wht_side = "HEAD"
    THEN walsh_hadamard_transform_HEAD(func)
    ELSE walsh_hadamard_transform_c1b06dd(func)

\* test_wht.py
wht_standard(func) ==
    LET n   == Len(func)
        wht == butterfly_loop([wht |-> to_signs(func), n |-> n, h |-> 1])
    IN  list([k \in 1..n |-> wht[k]])

wht_vectorized(func) ==
    LET n == Len(func)
    IN  blocked_loop([wht |-> to_signs(func), n |-> n, h |-> 1])

(***************************************************************************)
(* core/metrics.py: non-linearity and differential uniformity.             *)
(***************************************************************************)
\* bin(i).count('1')
RECURSIVE bit_count(_)
bit_count(i) == IF i = 0 THEN 0 ELSE (i % 2) + bit_count(i \div 2)

parity_lut == list([k \in 1..256 |-> bit_count(k - 1) % 2])

\* stands for float('inf'): above every value (256 - max_abs) // 2 can take
float_inf == 512

abs(v) == IF v < 0 THEN -v ELSE v

max(u, v) == IF v > u THEN v ELSE u

min(u, v) == IF v < u THEN v ELSE u

\* np.max over positions lo..hi of a list
RECURSIVE np_max(_, _, _)
np_max(values, lo, hi) ==
    IF lo = hi THEN values[lo]
    ELSE LET mid == (lo + hi) \div 2
         IN  max(np_max(values, lo, mid), np_max(values, mid + 1, hi))

\* np.abs, element by element
np_abs(values) == list([k \in 1..Len(values) |-> abs(values[k])])

\* the body of "for b in range(1, 256)" in compute_nonlinearity: the value
\* of min_nl after the pass for mask b
nonlinearity_pass(sbox, b, min_nl) ==
    LET inner   == list([k \in 1..256 |-> AND(sbox[k], b)])
        func    == list([k \in 1..256 |-> parity_lut[inner[k] + 1]])
        wht     == walsh_hadamard_transform(func)
        max_abs == np_max(np_abs(wht), 1, Len(wht))
        nl      == (256 - max_abs) \div 2
    IN  min(min_nl, nl)

\* the differences taken against the same input, x_prime = x
delta_y_same_input(sbox, delta_x) ==
    list([k \in 1..256 |-> XOR(sbox[k], sbox[k])])

\* delta_y = sbox_np[x] ^ sbox_np[x_prime], with x_prime = x ^ delta_x
delta_y_of(sbox, delta_x) ==
    list([k \in 1..256 |-> XOR(sbox[k], sbox[XOR(k - 1, delta_x) + 1])])

\* np.bincount: counts[v] += 1 for every v of values, in index order; st holds
\* values, counts and the index range lo..hi-1 still to run
RECURSIVE bincount_loop(_)
bincount_loop(st) ==
    IF st.hi <= st.lo THEN st.counts
    ELSE IF st.hi = st.lo + 1
    THEN [st.counts EXCEPT ![st.values[st.lo + 1] + 1] = @ + 1]
    ELSE LET mid == (st.lo + st.hi) \div 2
         IN  bincount_loop(
                 [values |-> st.values,
                  counts |-> bincount_loop([st EXCEPT !.hi = mid]),
                  lo     |-> mid,
                  hi     |-> st.hi])

\* np.bincount(values, minlength=256) for values below 256
np_bincount(values) ==
    bincount_loop([values |-> values,
                   counts |-> list([k \in 1..256 |-> 0]),
                   lo |-> 0, hi |-> Len(values)])

\* the body of "for delta_x in range(1, 256)" in
\* compute_differential_uniformity: the value of max_count after the pass
differential_pass(sbox, delta_x, max_count) ==
    LET delta_y == delta_y_of(sbox, delta_x)
        counts  == np_bincount(delta_y)
    IN  max(max_count, np_max(counts, 1, 256))

\* hw_lut and np.where(hw_lut == 1)[0] of compute_correlation_immunity
hw_lut == list([k \in 1..256 |-> bit_count(k - 1)])

indices_w1 == {i \in 0..255 : hw_lut[i + 1] = 1}

\* the test of a pass inspecting every coefficient but the one of index 0
any_nonzero_coefficient(sbox, bit) ==
    \E i \in 1..255 :
        walsh_hadamard_transform(
            list([k \in 1..256 |-> (sbox[k] \div (2 ^ bit)) % 2]))[i + 1] # 0

\* the test of the body of "for bit in range(8)" in
\* compute_correlation_immunity: func = (sbox_np >> bit) & 1, its transform,
\* and np.any(wht[indices_w1] != 0)
any_weight1_nonzero(sbox, bit) ==
    \E i \in indices_w1 :
        walsh_hadamard_transform(
            list([k \in 1..256 |-> (sbox[k] \div (2 ^ bit)) % 2]))[i + 1] # 0

\* compute_lap: input_parities = parity_lut[A & x] without row 0 (a = 0),
\* and IP = np.where(input_parities == 1, 1, -1); row a is at position a
input_parities ==
    list([a \in 1..255 |-> list([x \in 1..256 |-> parity_lut[AND(a, x - 1) + 1]])])

IP == list([a \in 1..255 |->
               list([x \in 1..256 |-> IF input_parities[a][x] = 1 THEN 1 ELSE -1])])

\* row b of OP = np.where(output_parities == 1, 1, -1), output_parities
\* being parity_lut[B & sbox_np]
OP_row(sbox, b) ==
    list([x \in 1..256 |-> IF parity_lut[AND(b, sbox[x]) + 1] = 1 THEN 1 ELSE -1])

\* sum(u[x] * v[x]) over positions lo..hi
RECURSIVE dot(_, _, _, _)
dot(u, v, lo, hi) ==
    IF lo = hi THEN u[lo] * v[lo]
    ELSE dot(u, v, lo, (lo + hi) \div 2) + dot(u, v, ((lo + hi) \div 2) + 1, hi)

\* column b of c_matrix = IP @ OP.T, op_row being row b of OP
c_matrix_column(op_row) == list([a \in 1..255 |-> dot(IP[a], op_row, 1, 256)])

\* the part of column b in max_abs_sum = np.max(np.abs(c_matrix)): the
\* largest absolute entry of the columns up to b
lap_pass(sbox, b, max_abs_sum) ==
    max(max_abs_sum, np_max(np_abs(c_matrix_column(OP_row(sbox, b))), 1, 255))

(***************************************************************************)
(* Inputs of the affine constructor.                                       *)
(***************************************************************************)
MaxPattern == 23

\* the circulant matrix whose row i has a one in column j exactly when bit
\* (j - i) mod 8 of pattern is set (rows and columns counted from 0)
Circulant(pattern) ==
    list([i \in 1..8 |-> list([j \in 1..8 |-> (pattern \div (2 ^ ((j - i) % 8))) % 2])])

\* the AES affine matrix: row i has ones at columns i, i+4, i+5, i+6, i+7 mod 8
AESMatrix ==
    << <<1, 0, 0, 0, 1, 1, 1, 1>>,
       <<1, 1, 0, 0, 0, 1, 1, 1>>,
       <<1, 1, 1, 0, 0, 0, 1, 1>>,
       <<1, 1, 1, 1, 0, 0, 0, 1>>,
       <<1, 1, 1, 1, 1, 0, 0, 0>>,
       <<0, 1, 1, 1, 1, 1, 0, 0>>,
       <<0, 0, 1, 1, 1, 1, 1, 0>>,
       <<0, 0, 0, 1, 1, 1, 1, 1>> >>

UpperTriangular == list([i \in 1..8 |-> list([j \in 1..8 |-> IF j >= i THEN 1 ELSE 0])])

Identity8 == Circulant(1)

MalformedMatrices ==
    { SubSeq(Identity8, 1, 7),
      Append(Identity8, <<0, 0, 0, 0, 0, 0, 0, 1>>),
      [Identity8 EXCEPT ![3] = <<0, 0, 1, 0, 0, 0, 0>>],
      [Identity8 EXCEPT ![6] = <<0, 0, 0, 0, 0, 1, 0, 0, 0>>],
      [Identity8 EXCEPT ![2][5] = 2],
      [Identity8 EXCEPT ![7][7] = 3] }

SquareMatrices == {Circulant(p) : p \in 0..MaxPattern} \cup {AESMatrix, UpperTriangular}

Matrices == SquareMatrices \cup MalformedMatrices

AffineConstants == {0, 99}

(***************************************************************************)
(* services/image_encryption_service.py: the bulk cipher.                  *)
(***************************************************************************)
\* "(v << 1) ^ 0x1B if (v & 0x80) else (v << 1)", then "& 0xFF"
shift_reduce(v) ==
    LET p == IF AND(v, 128) # 0 THEN XOR(v * 2, 27) ELSE v * 2
    IN  AND(p, 255)

\* the tables returned by _generate_mul_tables, one per local array
mul2_table == list([k \in 1..256 |-> shift_reduce(k - 1)])

x4_table == list([k \in 1..256 |-> shift_reduce(mul2_table[k])])

x8_table == list([k \in 1..256 |-> shift_reduce(x4_table[k])])

mul3_table == list([k \in 1..256 |-> XOR(mul2_table[k], k - 1)])

mul9_table == list([k \in 1..256 |-> XOR(x8_table[k], k - 1)])

mul11_table == list([k \in 1..256 |-> XOR(XOR(x8_table[k], mul2_table[k]), k - 1)])

mul13_table == list([k \in 1..256 |-> XOR(XOR(x8_table[k], x4_table[k]), k - 1)])

mul14_table == list([k \in 1..256 |-> XOR(XOR(x8_table[k], x4_table[k]), mul2_table[k])])

_generate_mul_tables ==
    <<mul2_table, mul3_table, mul9_table, mul11_table, mul13_table, mul14_table>>

MUL2 == _generate_mul_tables[1]

MUL3 == _generate_mul_tables[2]

MUL9 == _generate_mul_tables[3]

MUL11 == _generate_mul_tables[4]

MUL13 == _generate_mul_tables[5]

MUL14 == _generate_mul_tables[6]

\* a table indexed by a byte: table[v]
lut(table, v) == table[v + 1]

\* the state filled row by row, without the transpose: state[n][row][col] =
\* data[16 n + 4 row + col]
state_from_buffer_row_major(data, n_blocks) ==
    LET at(n, i, j) == data[16 * (n - 1) + 4 * (i - 1) + (j - 1) + 1]
    IN  list([n \in 1..n_blocks |->
            list([i \in 1..4 |-> list([j \in 1..4 |-> at(n, i, j)])])])

\* np.frombuffer(data).reshape(n_blocks, 4, 4).transpose(0, 2, 1).copy():
\* state[n][row][col] = data[16 n + 4 col + row]
state_from_buffer(data, n_blocks) ==
    LET at(n, i, j) == data[16 * (n - 1) + 4 * (j - 1) + (i - 1) + 1]
    IN  list([n \in 1..n_blocks |->
            list([i \in 1..4 |-> list([j \in 1..4 |-> at(n, i, j)])])])

\* state.transpose(0, 2, 1).tobytes()
state_to_buffer(state) ==
    list([k \in 1..(16 * Len(state)) |->
             state[((k - 1) \div 16) + 1][((k - 1) % 4) + 1][(((k - 1) \div 4) % 4) + 1]])

\* AddRoundKey that also folds the block before into each block
vec_add_round_key_chained(state, rkey) ==
    LET at(n, i, j) == XOR(XOR(state[n][i][j], rkey[i][j]),
                           IF n > 1 THEN state[n - 1][i][j] ELSE 0)
    IN  list([n \in 1..Len(state) |->
            list([i \in 1..4 |-> list([j \in 1..4 |-> at(n, i, j)])])])

\* state ^= rkeys[r], the round key broadcast over the blocks
vec_add_round_key(state, rkey) ==
    LET at(n, i, j) == XOR(state[n][i][j], rkey[i][j])
    IN  list([n \in 1..Len(state) |->
            list([i \in 1..4 |-> list([j \in 1..4 |-> at(n, i, j)])])])

\* state = sbox_flat[state]
vec_sub_bytes(state, sbox_flat) ==
    LET at(n, i, j) == lut(sbox_flat, state[n][i][j])
    IN  list([n \in 1..Len(state) |->
            list([i \in 1..4 |-> list([j \in 1..4 |-> at(n, i, j)])])])

\* state[:, r, :] = np.roll(state[:, r, :], -r, axis=1) for r = 1, 2, 3
vec_shift_rows(state) ==
    LET at(n, i, j) == state[n][i][(((j - 1) + (i - 1)) % 4) + 1]
    IN  list([n \in 1..Len(state) |->
            list([i \in 1..4 |-> list([j \in 1..4 |-> at(n, i, j)])])])

\* the inverse row shift rolling by -r, as the forward shift does
vec_inv_shift_rows_left(state) == vec_shift_rows(state)

\* state[:, r, :] = np.roll(state[:, r, :], r, axis=1) for r = 1, 2, 3
vec_inv_shift_rows(state) ==
    LET at(n, i, j) == state[n][i][(((j - 1) - (i - 1)) % 4) + 1]
    IN  list([n \in 1..Len(state) |->
            list([i \in 1..4 |-> list([j \in 1..4 |-> at(n, i, j)])])])

\* ns0..ns3 of MixColumns, stacked on axis 1
vec_mix_columns(state) ==
    LET s0(n, j) == state[n][1][j]
        s1(n, j) == state[n][2][j]
        s2(n, j) == state[n][3][j]
        s3(n, j) == state[n][4][j]
        at(n, i, j) ==
            CASE i = 1 -> XOR(XOR(XOR(lut(MUL2, s0(n, j)), lut(MUL3, s1(n, j))), s2(n, j)), s3(n, j))
              [] i = 2 -> XOR(XOR(XOR(s0(n, j), lut(MUL2, s1(n, j))), lut(MUL3, s2(n, j))), s3(n, j))
              [] i = 3 -> XOR(XOR(XOR(s0(n, j), s1(n, j)), lut(MUL2, s2(n, j))), lut(MUL3, s3(n, j)))
              [] i = 4 -> XOR(XOR(XOR(lut(MUL3, s0(n, j)), s1(n, j)), s2(n, j)), lut(MUL2, s3(n, j)))
    IN  list([n \in 1..Len(state) |->
            list([i \in 1..4 |-> list([j \in 1..4 |-> at(n, i, j)])])])

\* ns0..ns3 of InvMixColumns, stacked on axis 1
vec_inv_mix_columns(state) ==
    LET s0(n, j) == state[n][1][j]
        s1(n, j) == state[n][2][j]
        s2(n, j) == state[n][3][j]
        s3(n, j) == state[n][4][j]
        at(n, i, j) ==
            CASE i = 1 -> XOR(XOR(XOR(lut(MUL14, s0(n, j)), lut(MUL11, s1(n, j))), lut(MUL13, s2(n, j))), lut(MUL9, s3(n, j)))
              [] i = 2 -> XOR(XOR(XOR(lut(MUL9, s0(n, j)), lut(MUL14, s1(n, j))), lut(MUL11, s2(n, j))), lut(MUL13, s3(n, j)))
              [] i = 3 -> XOR(XOR(XOR(lut(MUL13, s0(n, j)), lut(MUL9, s1(n, j))), lut(MUL14, s2(n, j))), lut(MUL11, s3(n, j)))
              [] i = 4 -> XOR(XOR(XOR(lut(MUL11, s0(n, j)), lut(MUL13, s1(n, j))), lut(MUL9, s2(n, j))), lut(MUL14, s3(n, j)))
    IN  list([n \in 1..Len(state) |->
            list([i \in 1..4 |-> list([j \in 1..4 |-> at(n, i, j)])])])

\* bytes([v] * count)
repeat_byte(v, count) == list([k \in 1..count |-> v])

\* padding by pad_len = (16 - len % 16) % 16 bytes: none for an aligned input
padded_data_to_alignment(plaintext) ==
    plaintext \o repeat_byte((16 - (Len(plaintext) % 16)) % 16,
                             (16 - (Len(plaintext) % 16)) % 16)

\* the padding branch of _vector_aes_encrypt: data = plaintext + padding
padded_data(plaintext) ==
    IF Len(plaintext) % 16 # 0
    THEN plaintext \o repeat_byte(16 - (Len(plaintext) % 16), 16 - (Len(plaintext) % 16))
    ELSE plaintext \o repeat_byte(16, 16)

\* "for r in range(1, 10)" of _vector_aes_encrypt; st holds state and r.
\* One round: SubBytes, ShiftRows, MixColumns, AddRoundKey.
RECURSIVE vec_encrypt_rounds(_, _, _)
vec_encrypt_rounds(st, sbox_flat, rkeys) ==
    IF st.r >= 10 THEN st.state
    ELSE vec_encrypt_rounds(
             [state |-> vec_add_round_key(
                            vec_mix_columns(
                                vec_shift_rows(vec_sub_bytes(st.state, sbox_flat))),
                            rkeys[st.r + 1]),
              r     |-> st.r + 1],
             sbox_flat, rkeys)

\* "for r in range(9, 0, -1)" of _vector_aes_decrypt.
\* One round: InvShiftRows, InvSubBytes, AddRoundKey, InvMixColumns.
RECURSIVE vec_decrypt_rounds(_, _, _)
vec_decrypt_rounds(st, inv_sbox_flat, rkeys) ==
    IF st.r <= 0 THEN st.state
    ELSE vec_decrypt_rounds(
             [state |-> vec_inv_mix_columns(
                            vec_add_round_key(
                                vec_sub_bytes(vec_inv_shift_rows(st.state), inv_sbox_flat),
                                rkeys[st.r + 1])),
              r     |-> st.r - 1],
             inv_sbox_flat, rkeys)

\* padding, initial AddRoundKey, rounds 1..9, then the final round
\* (SubBytes, ShiftRows, AddRoundKey) and the flattening of the state
_vector_aes_encrypt(plaintext, round_keys, sbox) ==
    state_to_buffer(
        vec_add_round_key(
            vec_shift_rows(
                vec_sub_bytes(
                    vec_encrypt_rounds(
                        [state |-> vec_add_round_key(
                                       state_from_buffer(
                                           padded_data(plaintext),
                                           Len(padded_data(plaintext)) \div 16),
                                       round_keys[1]),
                         r     |-> 1],
                        flatten16(sbox), round_keys),
                    flatten16(sbox))),
            round_keys[11]))

\* reshape(n_blocks, 4, 4) needs 16 * n_blocks bytes: decrypt_image pads its
\* buffer to a block boundary before the call. Initial AddRoundKey with
\* rkeys[10], rounds 9..1, then InvShiftRows, InvSubBytes, AddRoundKey.
_vector_aes_decrypt(ciphertext, round_keys, inv_sbox) ==
    state_to_buffer(
        vec_add_round_key(
            vec_sub_bytes(
                vec_inv_shift_rows(
                    vec_decrypt_rounds(
                        [state |-> vec_add_round_key(
                                       state_from_buffer(ciphertext,
                                                         Len(ciphertext) \div 16),
                                       round_keys[11]),
                         r     |-> 9],
                        flatten16(inv_sbox), round_keys)),
                flatten16(inv_sbox)),
            round_keys[1]))

\* The statements of _vector_aes_encrypt after the state is built, numbered
\* in program order: 1 is the initial AddRoundKey, 2..37 are the four
\* statements of rounds 1..9, and 38, 39, 40 are the final round. step k is
\* applied to the array blk.
encrypt_step(blk, k, sbox_flat, rkeys) ==
    CASE k = 1  -> vec_add_round_key(blk, rkeys[1])
      [] k \in 2..37 /\ (k - 2) % 4 = 0 -> vec_sub_bytes(blk, sbox_flat)
      [] k \in 2..37 /\ (k - 2) % 4 = 1 -> vec_shift_rows(blk)
      [] k \in 2..37 /\ (k - 2) % 4 = 2 -> vec_mix_columns(blk)
      [] k \in 2..37 /\ (k - 2) % 4 = 3 ->
             vec_add_round_key(blk, rkeys[((k - 2) \div 4) + 2])
      [] k = 38 -> vec_sub_bytes(blk, sbox_flat)
      [] k = 39 -> vec_shift_rows(blk)
      [] k = 40 -> vec_add_round_key(blk, rkeys[11])

\* the statements of _vector_aes_decrypt in program order: 1 is the initial
\* AddRoundKey, 2..37 the four statements of rounds 9..1, 38..40 the last three
decrypt_step(blk, k, inv_sbox_flat, rkeys) ==
    CASE k = 1  -> vec_add_round_key(blk, rkeys[11])
      [] k \in 2..37 /\ (k - 2) % 4 = 0 -> vec_inv_shift_rows(blk)
      [] k \in 2..37 /\ (k - 2) % 4 = 1 -> vec_sub_bytes(blk, inv_sbox_flat)
      [] k \in 2..37 /\ (k - 2) % 4 = 2 ->
             vec_add_round_key(blk, rkeys[(9 - ((k - 2) \div 4)) + 1])
      [] k \in 2..37 /\ (k - 2) % 4 = 3 -> vec_inv_mix_columns(blk)
      [] k = 38 -> vec_inv_shift_rows(blk)
      [] k = 39 -> vec_sub_bytes(blk, inv_sbox_flat)
      [] k = 40 -> vec_add_round_key(blk, rkeys[1])

\* the number of statements either function applies to the state
LAST_STEP == 40

(***************************************************************************)
(* services/matrix_service.py and the class ImageEncryptionService.        *)
(*                                                                         *)
(* The catalog is read from data/matrices.json; here it holds the AES      *)
(* matrix under the id KAES, a second full-rank matrix and a matrix that   *)
(* is singular over GF(2). A string is the sequence of its code points.    *)
(* An image is its height, its width and its RGB pixel bytes in row order, *)
(* which is what the lossless PNG container carries between the calls.     *)
(***************************************************************************)
None == [id |-> "None", matrix |-> <<>>]

Catalog ==
    [id \in {"KAES", "K44", "KSING"} |->
        [id     |-> id,
         matrix |-> CASE id = "KAES"  -> AESMatrix
                      [] id = "K44"   -> UpperTriangular
                      [] id = "KSING" -> Circulant(23)]]

\* MatrixService._matrices: the catalog as last loaded, entries by id
VARIABLE _matrices

\* MatrixService.__init__ has loaded the file
IdleCatalog == _matrices = Catalog

\* MatrixService.get_by_id: self._matrices.get(matrix_id)
get_by_id(matrix_id) ==
    IF matrix_id \in DOMAIN _matrices THEN _matrices[matrix_id] ELSE None

\* ImageEncryptionService.__init__
new_service == [_sbox_cache |-> <<>>, _inv_sbox_cache |-> <<>>]

\* the outcome of a method: the exception raised or "none", the value
\* returned, and the object's fields after the call
Outcome(e, v, self) == [exc |-> e, val |-> v, self |-> self]

\* the cache miss of _get_sbox: the constant is 0x63 for 'KAES' and 0x00
\* otherwise; the table is stored in the cache and returned
sbox_of(matrix_data, sbox_id) ==
    construct_sbox(matrix_data.matrix, IF sbox_id = "KAES" THEN 99 ELSE 0)

_get_sbox(self, sbox_id) ==
    IF sbox_id \notin DOMAIN self._sbox_cache
    THEN IF get_by_id(sbox_id) = None
         THEN Outcome("ValueError", <<>>, self)
         ELSE Outcome("none", sbox_of(get_by_id(sbox_id), sbox_id),
                      [self EXCEPT !._sbox_cache =
                          (sbox_id :> sbox_of(get_by_id(sbox_id), sbox_id)) @@ @])
    ELSE Outcome("none", self._sbox_cache[sbox_id], self)

\* the cache miss of _get_inverse_sbox, got being what _get_sbox gave
inverse_sbox_of(got, sbox_id) ==
    IF got.exc # "none" THEN got
    ELSE Outcome("none", generate_inverse_sbox(got.val),
                 [got.self EXCEPT !._inv_sbox_cache =
                     (sbox_id :> generate_inverse_sbox(got.val)) @@ @])

_get_inverse_sbox(self, sbox_id) ==
    IF sbox_id \notin DOMAIN self._inv_sbox_cache
    THEN inverse_sbox_of(_get_sbox(self, sbox_id), sbox_id)
    ELSE Outcome("none", self._inv_sbox_cache[sbox_id], self)

\* MatrixService._load_matrices: the dictionary is emptied, then filled with
\* the entries of the file when a file is found and can be read
_load_matrices(file) ==
    IF file.readable THEN file.matrices ELSE [id \in {} |-> None]

\* AESService.__init__
new_aes_service == [_sbox_cache |-> [id \in {} |-> <<>>]]

\* the value of one hexadecimal digit given by its code point, -1 for any
\* other character
hex_digit(cp) ==
    IF cp \in 48..57 THEN cp - 48
    ELSE IF cp \in 97..102 THEN cp - 87
    ELSE IF cp \in 65..70 THEN cp - 55
    ELSE -1

\* int(c, 16) of a string of digits, acc the value of the digits read so far;
\* -1 stands for the ValueError
RECURSIVE int16(_, _)
int16(str, acc) ==
    IF str = <<>> THEN acc
    ELSE IF hex_digit(Head(str)) < 0 THEN -1
    ELSE int16(Tail(str), 16 * acc + hex_digit(Head(str)))

\* "Constant handling" of _resolve_sbox: the entry's "constant" read as
\* hexadecimal, "63" when the entry has none, 0x63 when it cannot be read,
\* and 0x63 for 'KAES' whatever the entry says
c_val(matrix_data, sbox_id) ==
    IF sbox_id = "KAES" THEN 99
    ELSE IF "constant" \notin DOMAIN matrix_data THEN int16(<<54, 51>>, 0)
    ELSE IF matrix_data.constant = <<>> \/ int16(matrix_data.constant, 0) < 0
    THEN 99
    ELSE int16(matrix_data.constant, 0)

\* "self._sbox_cache[sbox_id] = sbox" and "return sbox"
cache_and_return(self, sbox_id, sbox) ==
    Outcome("none", sbox, [self EXCEPT !._sbox_cache = (sbox_id :> sbox) @@ @])

\* step 3 of _resolve_sbox, for an sbox_id that is given
resolve_id(self, sbox_id) ==
    IF sbox_id \in DOMAIN self._sbox_cache
    THEN Outcome("none", self._sbox_cache[sbox_id], self)
    ELSE IF get_by_id(sbox_id) = None \/ get_by_id(sbox_id).matrix = <<>>
    THEN Outcome("ValueError", <<>>, self)
    ELSE cache_and_return(self, sbox_id,
                          construct_sbox(get_by_id(sbox_id).matrix,
                                         c_val(get_by_id(sbox_id), sbox_id)))

\* AESService._resolve_sbox; an argument that is not given is empty
_resolve_sbox(self, sbox_id, custom_sbox, custom_matrix, constant) ==
    IF custom_sbox # <<>> THEN Outcome("none", custom_sbox, self)
    ELSE IF custom_matrix # <<>>
    THEN Outcome("none", construct_sbox(custom_matrix, constant), self)
    ELSE IF sbox_id # "" THEN resolve_id(self, sbox_id)
    ELSE resolve_id(self, "KAES")

\* AESService.clear_cache
clear_cache(self) == [self EXCEPT !._sbox_cache = [id \in {} |-> <<>>]]

\* str.encode('utf-8') of one code point (surrogates are not encodable and
\* are not among the inputs)
utf8_char(cp) ==
    IF cp < 128 THEN <<cp>>
    ELSE IF cp < 2048 THEN <<192 + (cp \div 64), 128 + (cp % 64)>>
    ELSE IF cp < 65536
    THEN <<224 + (cp \div 4096), 128 + ((cp \div 64) % 64), 128 + (cp % 64)>>
    ELSE <<240 + (cp \div 262144), 128 + ((cp \div 4096) % 64),
           128 + ((cp \div 64) % 64), 128 + (cp % 64)>>

RECURSIVE utf8_encode(_)
utf8_encode(str) ==
    IF str = <<>> THEN <<>> ELSE utf8_char(Head(str)) \o utf8_encode(Tail(str))

\* the number of bytes of the character a lead byte starts, 0 for a byte
\* that cannot start one
utf8_width(b) ==
    IF b < 128 THEN 1
    ELSE IF b \in 194..223 THEN 2
    ELSE IF b \in 224..239 THEN 3
    ELSE IF b \in 240..244 THEN 4
    ELSE 0

\* the second byte allowed after a lead byte: a continuation byte that makes
\* neither an overlong form, nor a surrogate, nor a value above U+10FFFF
utf8_second(lead, b) ==
    CASE lead = 224 -> b \in 160..191
      [] lead = 237 -> b \in 128..159
      [] lead = 240 -> b \in 144..191
      [] lead = 244 -> b \in 128..143
      [] OTHER      -> b \in 128..191

\* data starts with one well-formed character
utf8_starts(data) ==
    /\ utf8_width(data[1]) > 0
    /\ Len(data) >= utf8_width(data[1])
    /\ utf8_width(data[1]) >= 2 => utf8_second(data[1], data[2])
    /\ \A i \in 3..utf8_width(data[1]) : data[i] \in 128..191

\* the code point of the well-formed character of w bytes data starts with
utf8_point(data, w) ==
    CASE w = 1 -> data[1]
      [] w = 2 -> (data[1] - 192) * 64 + (data[2] - 128)
      [] w = 3 -> (data[1] - 224) * 4096 + (data[2] - 128) * 64 + (data[3] - 128)
      [] w = 4 -> (data[1] - 240) * 262144 + (data[2] - 128) * 4096
                  + (data[3] - 128) * 64 + (data[4] - 128)

\* an element put in front of what the rest of a conversion gave
prepend(v, rest) ==
    IF rest.exc # "none" THEN rest ELSE Return(<<v>> \o rest.val)

\* bytes.decode('utf-8'), strict
RECURSIVE utf8_decode(_)
utf8_decode(data) ==
    IF data = <<>> THEN Return(<<>>)
    ELSE IF ~utf8_starts(data) THEN Raise("UnicodeDecodeError")
    ELSE prepend(utf8_point(data, utf8_width(data[1])),
                 utf8_decode(SubSeq(data, utf8_width(data[1]) + 1, Len(data))))

\* the upper-case hexadecimal digit of a value 0..15, as a code point
hex_char(d) == IF d < 10 THEN 48 + d ELSE 55 + d

\* bytes.hex().upper()
RECURSIVE hex_upper(_)
hex_upper(data) ==
    IF data = <<>> THEN <<>>
    ELSE <<hex_char(Head(data) \div 16), hex_char(Head(data) % 16)>>
         \o hex_upper(Tail(data))

\* bytes.fromhex: two digits per byte, ASCII whitespace between bytes skipped
RECURSIVE fromhex(_)
fromhex(str) ==
    IF str = <<>> THEN Return(<<>>)
    ELSE IF Head(str) \in {9, 10, 11, 12, 13, 32} THEN fromhex(Tail(str))
    ELSE IF Len(str) < 2 \/ hex_digit(str[1]) < 0 \/ hex_digit(str[2]) < 0
    THEN Raise("ValueError")
    ELSE prepend(16 * hex_digit(str[1]) + hex_digit(str[2]),
                 fromhex(Tail(Tail(str))))

\* the outcome of a method of the object self that ends with the value or
\* the exception of out
ending(out, self) == Outcome(out.exc, out.val, self)

\* AESService.encrypt after "Encrypt": out is what aes_encrypt_block gave
encrypt_end(out, self) ==
    IF out.exc # "none" THEN ending(out, self)
    ELSE Outcome("none", hex_upper(out.val), self)

\* AESService.encrypt from "Encrypt" on: got is what _resolve_sbox gave
encrypt_with(got, padded, key_bytes) ==
    IF got.exc # "none" THEN got
    ELSE encrypt_end(aes_encrypt_block(padded, key_bytes, got.val), got.self)

\* AESService.encrypt; a string is the sequence of its code points
encrypt(self, plaintext, key, sbox_id, custom_sbox, custom_matrix, constant) ==
    IF Len(key) # 16 THEN Outcome("ValueError", <<>>, self)
    ELSE IF Len(utf8_encode(plaintext)) > BLOCK_SIZE
    THEN Outcome("ValueError", <<>>, self)
    ELSE encrypt_with(_resolve_sbox(self, sbox_id, custom_sbox, custom_matrix,
                                    constant),
                      pkcs7_pad(utf8_encode(plaintext), BLOCK_SIZE),
                      utf8_encode(key))

\* "Decode to string": the text, or the upper-case hexadecimal digits of
\* bytes that are not UTF-8
decode_or_hex(unpadded) ==
    IF utf8_decode(unpadded).exc = "none" THEN utf8_decode(unpadded).val
    ELSE hex_upper(unpadded)

\* "Remove padding": when pkcs7_unpad raises, the handler calls it again on
\* the same bytes and that call raises out of decrypt
remove_padding(decrypted) == pkcs7_unpad(decrypted)

\* AESService.decrypt after "Decrypt": out is what aes_decrypt_block gave
decrypt_end(out, self) ==
    IF out.exc # "none" THEN ending(out, self)
    ELSE IF remove_padding(out.val).exc # "none"
    THEN ending(remove_padding(out.val), self)
    ELSE Outcome("none", decode_or_hex(remove_padding(out.val).val), self)

\* AESService.decrypt from "Decrypt" on: got is what _resolve_sbox gave
decrypt_block_with(got, ciphertext, key_bytes) ==
    IF got.exc # "none" THEN got
    ELSE decrypt_end(aes_decrypt_block(ciphertext, key_bytes, got.val), got.self)

\* AESService.decrypt
decrypt(self, ciphertext_hex, key, sbox_id, custom_sbox, custom_matrix, constant) ==
    IF Len(key) # 16 THEN Outcome("ValueError", <<>>, self)
    ELSE IF fromhex(ciphertext_hex).exc # "none"
    THEN Outcome("ValueError", <<>>, self)
    ELSE IF Len(fromhex(ciphertext_hex).val) # BLOCK_SIZE
    THEN Outcome("ValueError", <<>>, self)
    ELSE decrypt_block_with(_resolve_sbox(self, sbox_id, custom_sbox,
                                          custom_matrix, constant),
                            fromhex(ciphertext_hex).val,
                            utf8_encode(key))

_prepare_key(key) ==
    LET key_bytes == utf8_encode(key)
        padded    == IF Len(key_bytes) < 16
                     THEN key_bytes \o repeat_byte(0, 16 - Len(key_bytes))
                     ELSE key_bytes
    IN  SubSeq(padded, 1, 16)

\* the body of encrypt_image after "sbox = self._get_sbox(sbox_id)", got
\* being what that call gave: key schedule, bulk encryption, truncation of
\* the ciphertext to width * height * 3 bytes
encrypt_pixels(got, image_data, key) ==
    IF got.exc # "none" THEN got
    ELSE Outcome("none",
                 [height |-> image_data.height,
                  width  |-> image_data.width,
                  pixels |-> SubSeq(_vector_aes_encrypt(
                                        image_data.pixels,
                                        key_expansion(_prepare_key(key), got.val),
                                        got.val),
                                    1, image_data.width * image_data.height * 3)],
                 got.self)

encrypt_image(self, image_data, key, sbox_id) ==
    encrypt_pixels(_get_sbox(self, sbox_id), image_data, key)

\* flat_data with the zero bytes put in front of the pixel bytes
zero_padded_in_front(pixels) ==
    IF (16 - (Len(pixels) % 16)) % 16 > 0
    THEN repeat_byte(0, (16 - (Len(pixels) % 16)) % 16) \o pixels
    ELSE pixels

\* flat_data of decrypt_image: the pixel bytes zero-padded to a multiple of 16
zero_padded(pixels) ==
    IF (16 - (Len(pixels) % 16)) % 16 > 0
    THEN pixels \o repeat_byte(0, (16 - (Len(pixels) % 16)) % 16)
    ELSE pixels

\* the body of decrypt_image after the two table lookups, got and got_inv
\* being what _get_sbox and _get_inverse_sbox gave
decrypt_pixels(got, got_inv, image_data, key) ==
    Outcome("none",
            [height |-> image_data.height,
             width  |-> image_data.width,
             pixels |-> SubSeq(_vector_aes_decrypt(
                                   zero_padded(image_data.pixels),
                                   key_expansion(_prepare_key(key), got.val),
                                   got_inv.val),
                               1, image_data.width * image_data.height * 3)],
            got_inv.self)

\* "sbox = self._get_sbox(sbox_id)" then
\* "inv_sbox = self._get_inverse_sbox(sbox_id)" on the object the first call left
decrypt_with(got, image_data, key, sbox_id) ==
    IF got.exc # "none" THEN got
    ELSE decrypt_pixels(got, _get_inverse_sbox(got.self, sbox_id), image_data, key)

decrypt_image(self, image_data, key, sbox_id) ==
    decrypt_with(_get_sbox(self, sbox_id), image_data, key, sbox_id)

(***************************************************************************)
(* Inputs of the block cipher.                                             *)
(***************************************************************************)
MaxPlainSeed == 3

MaxKeySeed == 2

\* sample 16-byte blocks; seed 0 gives 00 11 22 .. ff (FIPS-197 appendix C.1)
SamplePlaintext(seed) ==
    list([j \in 1..16 |-> (seed * 83 + (j - 1) * (16 * seed + 17)) % 256])

\* sample 16-byte keys; seed 0 gives 00 01 02 .. 0f (FIPS-197 appendix C.1)
SampleKey(seed) ==
    list([j \in 1..16 |-> (seed * 101 + (j - 1) * (2 * seed + 1)) % 256])

AESSbox == construct_sbox(AESMatrix, 99)

\* a bijective S-box that is not of the affine-over-inverse form
PermutationSbox == grid16(list([k \in 1..256 |-> ((k - 1) * 13 + 7) % 256]))

CipherSboxes == {AESSbox, construct_sbox(UpperTriangular, 0), PermutationSbox}

VARIABLES
    matrix,        \* the matrix under test
    constant,      \* the affine constant
    validation,    \* result of validate_matrix(matrix), or not yet computed
    sbox,          \* result of construct_sbox(matrix, constant), or not yet computed
    inv_sbox,      \* result of construct_inverse_sbox(matrix, constant), or not yet computed
    gen_inv_sbox,  \* result of generate_inverse_sbox(sbox), or not yet computed
    plaintext,     \* the block handed to aes_encrypt_block
    key,           \* the cipher key
    cipher_sbox,   \* the S-box injected into the cipher
    ciphertext,    \* result of aes_encrypt_block, or not yet called
    decrypted,     \* result of aes_decrypt_block on the ciphertext, or not yet called
    test_func,     \* the Boolean function handed to the transforms
    std_spectrum,  \* result of wht_standard(test_func), or not yet computed
    vec_spectrum,  \* result of wht_vectorized(test_func), or not yet computed
    spectrum,      \* result of walsh_hadamard_transform(test_func), or not yet computed
    nl_sbox,       \* compute_nonlinearity: its argument sbox
    nl_b,          \* compute_nonlinearity: the next mask b of its loop
    min_nl,        \* compute_nonlinearity: its local min_nl
    nl_result,     \* compute_nonlinearity: the value returned, or not yet returned
    du_sbox,       \* compute_differential_uniformity: its argument sbox
    du_delta_x,    \* compute_differential_uniformity: the next delta_x of its loop
    max_count,     \* compute_differential_uniformity: its local max_count
    du_result,     \* compute_differential_uniformity: the value returned, or not yet returned
    img_service,      \* the ImageEncryptionService object: its two caches
    original_image,   \* the image handed to encrypt_image
    encrypt_call,     \* the key and sbox_id encrypt_image was called with
    encrypted_image,  \* outcome of encrypt_image, or not yet called
    decrypt_call,     \* the key and sbox_id decrypt_image was called with
    decrypted_image   \* outcome of decrypt_image on the encrypted image, or not yet called

affineVars == <<matrix, constant, validation, sbox, inv_sbox, gen_inv_sbox>>

aesVars == <<plaintext, key, cipher_sbox, ciphertext, decrypted>>

whtVars == <<test_func, std_spectrum, vec_spectrum, spectrum>>

nlVars == <<nl_sbox, nl_b, min_nl, nl_result>>

duVars == <<du_sbox, du_delta_x, max_count, du_result>>

imageVars == <<img_service, original_image, encrypt_call, encrypted_image,
               decrypt_call, decrypted_image>>

\* a result not yet computed
NoTable == <<>>

NotValidated == [is_valid |-> FALSE, error |-> "not called", details |-> [rank |-> 0]]

NotCalled == [exc |-> "not called", val |-> <<>>]

\* the variables of a component that is not exercised
IdleAffine ==
    /\ matrix = <<>>
    /\ constant = 0
    /\ validation = NotValidated
    /\ sbox = NoTable
    /\ inv_sbox = NoTable
    /\ gen_inv_sbox = NoTable

IdleAES ==
    /\ plaintext = <<>>
    /\ key = <<>>
    /\ cipher_sbox = NoTable
    /\ ciphertext = NotCalled
    /\ decrypted = NotCalled

\* no side of the merge is exercised
IdleMerge == wht_side = "none"

IdleWHT ==
    /\ test_func = <<>>
    /\ std_spectrum = NoTable
    /\ vec_spectrum = NoTable
    /\ spectrum = NoTable

NotReturned == [exc |-> "not returned", val |-> 0]

IdleNL ==
    /\ nl_sbox = NoTable
    /\ nl_b = 0
    /\ min_nl = 0
    /\ nl_result = NotReturned

IdleDU ==
    /\ du_sbox = NoTable
    /\ du_delta_x = 0
    /\ max_count = 0
    /\ du_result = NotReturned

NoImage == [height |-> 0, width |-> 0, pixels |-> <<>>]

NoCall == [key |-> <<>>, sbox_id |-> ""]

ImageNotCalled == [exc |-> "not called", val |-> NoImage]

IdleImage ==
    /\ img_service = new_service
    /\ original_image = NoImage
    /\ encrypt_call = NoCall
    /\ encrypted_image = ImageNotCalled
    /\ decrypt_call = NoCall
    /\ decrypted_image = ImageNotCalled

VARIABLES
    bulk_input,         \* the bytes handed to _vector_aes_encrypt
    bulk_other,         \* a second input, handed to a second call
    bulk_round_keys,    \* the key schedule both calls are given
    bulk_sbox,          \* the S-box both calls are given
    bulk_inv_sbox,      \* the inverse table _vector_aes_decrypt is given
    bulk_cipher,        \* _vector_aes_encrypt(bulk_input, ..), or not yet called
    bulk_other_cipher,  \* _vector_aes_encrypt(bulk_other, ..), or not yet called
    bulk_plain,         \* _vector_aes_decrypt(bulk_cipher, ..), or not yet called
    bulk_other_plain    \* _vector_aes_decrypt(bulk_other_cipher, ..), or not yet called

bulkVars == <<bulk_input, bulk_other, bulk_round_keys, bulk_sbox, bulk_inv_sbox,
              bulk_cipher, bulk_other_cipher, bulk_plain, bulk_other_plain>>

\* a call not yet made (a result of either bulk function has 16 bytes or more)
NoBytes == <<>>

IdleBulk ==
    /\ bulk_input = <<>>
    /\ bulk_other = <<>>
    /\ bulk_round_keys = <<>>
    /\ bulk_sbox = NoTable
    /\ bulk_inv_sbox = NoTable
    /\ bulk_cipher = NoBytes
    /\ bulk_other_cipher = NoBytes
    /\ bulk_plain = NoBytes
    /\ bulk_other_plain = NoBytes

VARIABLES
    il_direction,   \* "encrypt" or "decrypt": which bulk function is evaluated
    il_input,       \* its first argument
    il_round_keys,  \* its round keys
    il_table,       \* its S-box (encrypt) or inverse table (decrypt)
    il_state,       \* the state array, one 4x4 matrix per block
    il_pc,          \* per block: how many statements have been applied to it
    il_out          \* per block: its output slot, empty until written

interleaveVars == <<il_direction, il_input, il_round_keys, il_table, il_state,
                    il_pc, il_out>>

IdleInterleave ==
    /\ il_direction = "none"
    /\ il_input = <<>>
    /\ il_round_keys = <<>>
    /\ il_table = NoTable
    /\ il_state = <<>>
    /\ il_pc = <<>>
    /\ il_out = <<>>

VARIABLES
    pad_input,      \* the data handed to the two padding routines
    pkcs_padded,    \* pkcs7_pad(pad_input), or not yet called
    inline_padded,  \* the padded data of _vector_aes_encrypt, or not yet computed
    unpad_input,    \* the data handed to pkcs7_unpad
    unpadded        \* outcome of pkcs7_unpad(unpad_input), or not yet called

padVars == <<pad_input, pkcs_padded, inline_padded, unpad_input, unpadded>>

IdlePad ==
    /\ pad_input = <<>>
    /\ pkcs_padded = NoBytes
    /\ inline_padded = NoBytes
    /\ unpad_input = <<>>
    /\ unpadded = NotCalled

VARIABLES
    blk_data,      \* the block handed to the four block functions
    blk_key,       \* the key handed to aes_encrypt_block and aes_decrypt_block
    blk_sbox,      \* the S-box
    blk_enc,       \* outcome of aes_encrypt_block(blk_data, blk_key, blk_sbox)
    blk_dec,       \* outcome of aes_decrypt_block(blk_data, blk_key, blk_sbox)
    blk_enc_fast,  \* outcome of aes_encrypt_block_fast(blk_data, ..)
    blk_dec_fast   \* outcome of aes_decrypt_block_fast(blk_data, ..)

blockVars == <<blk_data, blk_key, blk_sbox, blk_enc, blk_dec, blk_enc_fast,
               blk_dec_fast>>

IdleBlock ==
    /\ blk_data = <<>>
    /\ blk_key = <<>>
    /\ blk_sbox = NoTable
    /\ blk_enc = NotCalled
    /\ blk_dec = NotCalled
    /\ blk_enc_fast = NotCalled
    /\ blk_dec_fast = NotCalled

VARIABLES
    ks_key,     \* the raw key handed to both calls of key_expansion
    ks_sbox1,   \* the S-box of the first call
    ks_sbox2,   \* the S-box of the second call, a different table
    ks_first,   \* key_expansion(ks_key, ks_sbox1), or not yet called
    ks_second   \* key_expansion(ks_key, ks_sbox2), or not yet called

scheduleVars == <<ks_key, ks_sbox1, ks_sbox2, ks_first, ks_second>>

IdleSchedule ==
    /\ ks_key = <<>>
    /\ ks_sbox1 = NoTable
    /\ ks_sbox2 = NoTable
    /\ ks_first = <<>>
    /\ ks_second = <<>>

VARIABLES
    cs_image,   \* an ImageEncryptionService object: its two caches
    cs_aes,     \* an AESService object: its cache
    cs_lookup,  \* the last lookup: method, id and what it returned or raised
    cs_calls    \* the number of lookups made so far

cacheVars == <<cs_image, cs_aes, cs_lookup, cs_calls>>

NoLookup == [method |-> "none", sbox_id |-> "", exc |-> "not called", val |-> <<>>]

IdleCache ==
    /\ cs_image = new_service
    /\ cs_aes = new_aes_service
    /\ cs_lookup = NoLookup
    /\ cs_calls = 0

VARIABLES
    svc_aes,        \* an AESService object: its cache
    svc_plaintext,  \* the text handed to encrypt
    svc_call,       \* the key and the S-box arguments encrypt was called with
    svc_encrypted,  \* outcome of encrypt, or not yet called
    svc_decrypted   \* outcome of decrypt of what encrypt returned, or not yet called

serviceVars == <<svc_aes, svc_plaintext, svc_call, svc_encrypted, svc_decrypted>>

NoServiceCall ==
    [key |-> <<>>, sbox_id |-> "", custom_sbox |-> <<>>, custom_matrix |-> <<>>,
     constant |-> 0]

IdleService ==
    /\ svc_aes = new_aes_service
    /\ svc_plaintext = <<>>
    /\ svc_call = NoServiceCall
    /\ svc_encrypted = NotCalled
    /\ svc_decrypted = NotCalled

VARIABLES
    rs_function,    \* which of the four block functions is running
    rs_input,       \* its plaintext or ciphertext argument
    rs_key,         \* the cipher key
    rs_sbox,        \* the S-box
    rs_round_keys,  \* the function's round_keys
    rs_inv_sbox,    \* the function's inv_sbox (decryption)
    rs_state,       \* the function's local state
    rs_iter,        \* the position of the main loop in its range
    rs_pc,          \* the statement the function is about to run
    rs_steps,       \* the transformations applied so far, in order
    rs_out          \* the bytes returned, or not yet returned

roundVars == <<rs_function, rs_input, rs_key, rs_sbox, rs_round_keys, rs_inv_sbox,
               rs_state, rs_iter, rs_pc, rs_steps, rs_out>>

IdleRounds ==
    /\ rs_function = "none"
    /\ rs_input = <<>>
    /\ rs_key = <<>>
    /\ rs_sbox = NoTable
    /\ rs_round_keys = <<>>
    /\ rs_inv_sbox = NoTable
    /\ rs_state = <<>>
    /\ rs_iter = 0
    /\ rs_pc = "none"
    /\ rs_steps = <<>>
    /\ rs_out = NoBytes

(***************************************************************************)
(* GF(2^8) calls: the arguments, the locals of gf_mul while it runs, and   *)
(* what the inverse functions returned.                                    *)
(***************************************************************************)
VARIABLES gf_x, gf_y, gf_st, gf_pc, gf_passes, gf_inv

fieldVars == <<gf_x, gf_y, gf_st, gf_pc, gf_passes, gf_inv>>

NoLocals == [result |-> 0, a |-> 0, b |-> 0]

NoInverse == [gf_inverse |-> 0, gf_pow |-> 0, get_inverse |-> 0, product |-> 0]

IdleField ==
    /\ gf_x = 0
    /\ gf_y = 0
    /\ gf_st = NoLocals
    /\ gf_pc = "none"
    /\ gf_passes = 0
    /\ gf_inv = NoInverse

(***************************************************************************)
(* compute_correlation_immunity: its argument, the loop variable, which    *)
(* return statement was taken and what it returned.                        *)
(***************************************************************************)
VARIABLES ci_sbox, ci_bit, ci_return, ci_result

ciVars == <<ci_sbox, ci_bit, ci_return, ci_result>>

IdleCI ==
    /\ ci_sbox = NoTable
    /\ ci_bit = 0
    /\ ci_return = "none"
    /\ ci_result = NotReturned

(***************************************************************************)
(* compute_lap and compute_nonlinearity on one S-box: the argument, the    *)
(* loop variables and what each returned.                                  *)
(***************************************************************************)
VARIABLES lin_sbox, lin_column, lin_max_abs_sum, lin_lap, lin_b, lin_min_nl, lin_nl

linearVars == <<lin_sbox, lin_column, lin_max_abs_sum, lin_lap, lin_b, lin_min_nl, lin_nl>>

\* a float held as a fraction
NoFloat == [exc |-> "not returned", val |-> [num |-> 0, den |-> 1]]

IdleLinear ==
    /\ lin_sbox = NoTable
    /\ lin_column = 0
    /\ lin_max_abs_sum = 0
    /\ lin_lap = NoFloat
    /\ lin_b = 0
    /\ lin_min_nl = 0
    /\ lin_nl = NotReturned

\* every variable of the model
vars == <<affineVars, aesVars, wht_side, whtVars, nlVars, duVars, imageVars, bulkVars, interleaveVars, padVars, blockVars, scheduleVars, _matrices, cacheVars, serviceVars, roundVars, fieldVars, ciVars, linearVars>>

(***************************************************************************)
(* The affine constructor applied to one matrix and constant.              *)
(***************************************************************************)
outsideAffine == <<aesVars, wht_side, whtVars, nlVars, duVars, imageVars, bulkVars, interleaveVars, padVars, blockVars, scheduleVars, _matrices, cacheVars, serviceVars, roundVars, fieldVars, ciVars, linearVars>>

InitAffine ==
    /\ matrix \in Matrices
    /\ constant \in AffineConstants
    /\ validation = NotValidated
    /\ sbox = NoTable
    /\ inv_sbox = NoTable
    /\ gen_inv_sbox = NoTable
    /\ IdleAES /\ IdleMerge /\ IdleWHT /\ IdleNL /\ IdleDU /\ IdleImage /\ IdleBulk /\ IdleInterleave /\ IdlePad /\ IdleBlock /\ IdleSchedule /\ IdleCatalog /\ IdleCache /\ IdleService /\ IdleRounds /\ IdleField /\ IdleCI /\ IdleLinear

ValidateMatrix ==
    /\ validation = NotValidated
    /\ validation' = validate_matrix(matrix)
    /\ UNCHANGED <<matrix, constant, sbox, inv_sbox, gen_inv_sbox, outsideAffine>>

\* np.array / np.dot need the 8x8 shape
IsSquare8(m) == Len(m) = 8 /\ \A i \in 1..8 : Len(m[i]) = 8

ConstructSbox ==
    /\ sbox = NoTable
    /\ IsSquare8(matrix)
    /\ sbox' = construct_sbox(matrix, constant)
    /\ UNCHANGED <<matrix, constant, validation, inv_sbox, gen_inv_sbox, outsideAffine>>

ConstructInverseSbox ==
    /\ inv_sbox = NoTable
    /\ IsSquare8(matrix)
    /\ inv_sbox' = construct_inverse_sbox(matrix, constant)
    /\ UNCHANGED <<matrix, constant, validation, sbox, gen_inv_sbox, outsideAffine>>

GenerateInverseSbox ==
    /\ sbox # NoTable
    /\ gen_inv_sbox = NoTable
    /\ gen_inv_sbox' = generate_inverse_sbox(sbox)
    /\ UNCHANGED <<matrix, constant, validation, sbox, inv_sbox, outsideAffine>>

NextAffine ==
    \/ ValidateMatrix
    \/ ConstructSbox
    \/ ConstructInverseSbox
    \/ GenerateInverseSbox

SpecAffine == InitAffine /\ [][NextAffine]_vars

(***************************************************************************)
(* One block encrypted, then decrypted, with one key and one S-box.        *)
(***************************************************************************)
outsideAES == <<affineVars, wht_side, whtVars, nlVars, duVars, imageVars, bulkVars, interleaveVars, padVars, blockVars, scheduleVars, _matrices, cacheVars, serviceVars, roundVars, fieldVars, ciVars, linearVars>>

InitAES ==
    /\ plaintext \in {SamplePlaintext(s) : s \in 0..MaxPlainSeed}
    /\ key \in {SampleKey(s) : s \in 0..MaxKeySeed}
    /\ cipher_sbox \in CipherSboxes
    /\ ciphertext = NotCalled
    /\ decrypted = NotCalled
    /\ IdleAffine /\ IdleMerge /\ IdleWHT /\ IdleNL /\ IdleDU /\ IdleImage /\ IdleBulk /\ IdleInterleave /\ IdlePad /\ IdleBlock /\ IdleSchedule /\ IdleCatalog /\ IdleCache /\ IdleService /\ IdleRounds /\ IdleField /\ IdleCI /\ IdleLinear

EncryptBlock ==
    /\ ciphertext = NotCalled
    /\ ciphertext' = aes_encrypt_block(plaintext, key, cipher_sbox)
    /\ UNCHANGED <<plaintext, key, cipher_sbox, decrypted, outsideAES>>

DecryptBlock ==
    /\ ciphertext.exc = "none"
    /\ decrypted = NotCalled
    /\ decrypted' = aes_decrypt_block(ciphertext.val, key, cipher_sbox)
    /\ UNCHANGED <<plaintext, key, cipher_sbox, ciphertext, outsideAES>>

NextAES ==
    \/ EncryptBlock
    \/ DecryptBlock

SpecAES == InitAES /\ [][NextAES]_vars

(***************************************************************************)
(* The transforms of test_wht.py and metrics.py applied to one function.   *)
(***************************************************************************)
MaxFuncCode == 255

MaxMask == 3

TestLengths == {1, 2, 4, 8}

\* the truth table of length n whose entry i is bit i of code
BoolFunc(n, code) == list([k \in 1..n |-> (code \div (2 ^ (k - 1))) % 2])

\* test_func of test_wht.py
TestFunc == <<0, 1, 0, 1, 1, 0, 1, 0>>

ShortFunctions ==
    {BoolFunc(n, code) : n \in TestLengths, code \in 0..MaxFuncCode}

ZeroFunction256 == list([k \in 1..256 |-> 0])

\* f_b(x) = parity(b & S(x)) for the AES S-box
AESSboxFlat == flatten16(AESSbox)

ComponentFunction(b) ==
    list([k \in 1..256 |-> bit_count(AND(AESSboxFlat[k], b)) % 2])

LongFunctions == {ZeroFunction256} \cup {ComponentFunction(b) : b \in 1..MaxMask}

outsideWHT == <<affineVars, aesVars, nlVars, duVars, imageVars, bulkVars, interleaveVars, padVars, blockVars, scheduleVars, _matrices, cacheVars, serviceVars, roundVars, fieldVars, ciVars, linearVars>>

InitWHT ==
    /\ wht_side \in MergeSides
    /\ test_func \in ShortFunctions \cup LongFunctions
    /\ std_spectrum = NoTable
    /\ vec_spectrum = NoTable
    /\ spectrum = NoTable
    /\ IdleAffine /\ IdleAES /\ IdleNL /\ IdleDU /\ IdleImage /\ IdleBulk /\ IdleInterleave /\ IdlePad /\ IdleBlock /\ IdleSchedule /\ IdleCatalog /\ IdleCache /\ IdleService /\ IdleRounds /\ IdleField /\ IdleCI /\ IdleLinear

WhtStandard ==
    /\ std_spectrum = NoTable
    /\ std_spectrum' = wht_standard(test_func)
    /\ UNCHANGED <<wht_side, test_func, vec_spectrum, spectrum, outsideWHT>>

WhtVectorized ==
    /\ vec_spectrum = NoTable
    /\ vec_spectrum' = wht_vectorized(test_func)
    /\ UNCHANGED <<wht_side, test_func, std_spectrum, spectrum, outsideWHT>>

WalshHadamardTransform ==
    /\ spectrum = NoTable
    /\ spectrum' = walsh_hadamard_transform(test_func)
    /\ UNCHANGED <<wht_side, test_func, std_spectrum, vec_spectrum, outsideWHT>>

NextWHT ==
    \/ WhtStandard
    \/ WhtVectorized
    \/ WalshHadamardTransform

SpecWHT == InitWHT /\ [][NextWHT]_vars

(***************************************************************************)
(* compute_nonlinearity, one pass of its loop per step.                    *)
(***************************************************************************)
MetricSboxes == {AESSboxFlat, flatten16(PermutationSbox)}

outsideNL == <<affineVars, aesVars, whtVars, duVars, imageVars, bulkVars, interleaveVars, padVars, blockVars, scheduleVars, _matrices, cacheVars, serviceVars, roundVars, fieldVars, ciVars, linearVars>>

InitNL ==
    /\ wht_side \in MergeSides
    /\ nl_sbox \in MetricSboxes
    /\ nl_b = 1
    /\ min_nl = float_inf
    /\ nl_result = NotReturned
    /\ IdleAffine /\ IdleAES /\ IdleWHT /\ IdleDU /\ IdleImage /\ IdleBulk /\ IdleInterleave /\ IdlePad /\ IdleBlock /\ IdleSchedule /\ IdleCatalog /\ IdleCache /\ IdleService /\ IdleRounds /\ IdleField /\ IdleCI /\ IdleLinear

\* one pass of "for b in range(1, 256)"
NonlinearityPass ==
    /\ nl_result = NotReturned
    /\ nl_b < 256
    /\ min_nl' = nonlinearity_pass(nl_sbox, nl_b, min_nl)
    /\ nl_b' = nl_b + 1
    /\ UNCHANGED <<wht_side, nl_sbox, nl_result, outsideNL>>

\* return int(min_nl)
NonlinearityReturn ==
    /\ nl_result = NotReturned
    /\ nl_b = 256
    /\ nl_result' = Return(min_nl)
    /\ UNCHANGED <<wht_side, nl_sbox, nl_b, min_nl, outsideNL>>

NextNL ==
    \/ NonlinearityPass
    \/ NonlinearityReturn

SpecNL == InitNL /\ [][NextNL]_vars

(***************************************************************************)
(* compute_differential_uniformity, one pass of its loop per step.         *)
(***************************************************************************)
outsideDU == <<affineVars, aesVars, wht_side, whtVars, nlVars, imageVars, bulkVars, interleaveVars, padVars, blockVars, scheduleVars, _matrices, cacheVars, serviceVars, roundVars, fieldVars, ciVars, linearVars>>

InitDU ==
    /\ du_sbox \in MetricSboxes
    /\ du_delta_x = 1
    /\ max_count = 0
    /\ du_result = NotReturned
    /\ IdleAffine /\ IdleAES /\ IdleMerge /\ IdleWHT /\ IdleNL /\ IdleImage /\ IdleBulk /\ IdleInterleave /\ IdlePad /\ IdleBlock /\ IdleSchedule /\ IdleCatalog /\ IdleCache /\ IdleService /\ IdleRounds /\ IdleField /\ IdleCI /\ IdleLinear

\* one pass of "for delta_x in range(1, 256)"
DifferentialPass ==
    /\ du_result = NotReturned
    /\ du_delta_x < 256
    /\ max_count' = differential_pass(du_sbox, du_delta_x, max_count)
    /\ du_delta_x' = du_delta_x + 1
    /\ UNCHANGED <<du_sbox, du_result, outsideDU>>

\* return int(max_count)
DifferentialReturn ==
    /\ du_result = NotReturned
    /\ du_delta_x = 256
    /\ du_result' = Return(max_count)
    /\ UNCHANGED <<du_sbox, du_delta_x, max_count, outsideDU>>

NextDU ==
    \/ DifferentialPass
    \/ DifferentialReturn

SpecDU == InitDU /\ [][NextDU]_vars

(***************************************************************************)
(* One image encrypted by encrypt_image, and the result decrypted by       *)
(* decrypt_image, on one ImageEncryptionService object.                    *)
(***************************************************************************)
MaxPixelSeed == 1

\* width and height of the sample images: 3, 18, 48 and 96 pixel bytes
ImageSizes == {<<1, 1>>, <<3, 2>>, <<4, 4>>, <<8, 4>>}

\* seed 0 is the solid red image of test_image_enc.py
SamplePixels(count, seed) ==
    list([k \in 1..count |->
             IF seed = 0
             THEN (IF (k - 1) % 3 = 0 THEN 255 ELSE 0)
             ELSE ((k - 1) * (2 * seed + 35) + 101 * seed) % 256])

Images ==
    {[height |-> size[2], width |-> size[1],
      pixels |-> SamplePixels(size[1] * size[2] * 3, seed)] :
        size \in ImageSizes, seed \in 0..MaxPixelSeed}

\* 'TestKey123456789' (test_image_enc.py), 'TestKey123' (test_perf.py), and a
\* key of 17 characters that starts with U+00E9
ImageKeys ==
    { <<84, 101, 115, 116, 75, 101, 121, 49, 50, 51, 52, 53, 54, 55, 56, 57>>,
      <<84, 101, 115, 116, 75, 101, 121, 49, 50, 51>>,
      <<233, 84, 101, 115, 116, 75, 101, 121, 49, 50, 51, 52, 53, 54, 55, 56, 57>> }

SboxIds == {"KAES", "K44", "KSING", "KNONE"}

outsideImage == <<affineVars, aesVars, wht_side, whtVars, nlVars, duVars, bulkVars, interleaveVars, padVars, blockVars, scheduleVars, _matrices, cacheVars, serviceVars, roundVars, fieldVars, ciVars, linearVars>>

InitImage ==
    /\ img_service = new_service
    /\ original_image \in Images
    /\ encrypt_call = NoCall
    /\ encrypted_image = ImageNotCalled
    /\ decrypt_call = NoCall
    /\ decrypted_image = ImageNotCalled
    /\ IdleAffine /\ IdleAES /\ IdleMerge /\ IdleWHT /\ IdleNL /\ IdleDU /\ IdleBulk /\ IdleInterleave /\ IdlePad /\ IdleBlock /\ IdleSchedule /\ IdleCatalog /\ IdleCache /\ IdleService /\ IdleRounds /\ IdleField /\ IdleCI /\ IdleLinear

\* the image of an outcome, or no image when the call raised
ImageOf(out) == IF out.exc = "none" THEN out.val ELSE NoImage

EncryptImage ==
    /\ encrypted_image.exc = "not called"
    /\ \E k \in ImageKeys, id \in SboxIds :
          \E out \in {encrypt_image(img_service, original_image, k, id)} :
              /\ encrypt_call' = [key |-> k, sbox_id |-> id]
              /\ encrypted_image' = [exc |-> out.exc, val |-> ImageOf(out)]
              /\ img_service' = out.self
    /\ UNCHANGED <<original_image, decrypt_call, decrypted_image, outsideImage>>

DecryptImage ==
    /\ encrypted_image.exc = "none"
    /\ decrypted_image.exc = "not called"
    /\ \E k \in ImageKeys, id \in SboxIds :
          \E out \in {decrypt_image(img_service, encrypted_image.val, k, id)} :
              /\ decrypt_call' = [key |-> k, sbox_id |-> id]
              /\ decrypted_image' = [exc |-> out.exc, val |-> ImageOf(out)]
              /\ img_service' = out.self
    /\ UNCHANGED <<original_image, encrypt_call, encrypted_image, outsideImage>>

NextImage ==
    \/ EncryptImage
    \/ DecryptImage

SpecImage == InitImage /\ [][NextImage]_vars

(***************************************************************************)
(* Two calls of _vector_aes_encrypt with the same key schedule and S-box,  *)
(* each followed by _vector_aes_decrypt of its result.                     *)
(***************************************************************************)
MaxBulkSeed == 1

\* input lengths: empty, below one block, one block, between, two blocks
BulkLengths == {0, 5, 16, 20, 32}

SampleBytes(count, seed) ==
    list([k \in 1..count |-> ((k - 1) * (2 * seed + 7) + 29 * seed + 3) % 256])

\* the second inputs tried with a first input: the same bytes, the bytes with
\* the first or the last one changed, and the bytes with three more appended
OtherInputs(input) ==
    {input, input \o <<7, 7, 7>>}
    \cup (IF input = <<>> THEN {}
          ELSE {[input EXCEPT ![1] = (@ + 1) % 256],
                [input EXCEPT ![Len(input)] = (@ + 1) % 256]})

\* the AES S-box, a permutation that is not affine, and the table of a matrix
\* that is singular over GF(2), which is not a bijection
BulkSboxes == {AESSbox, PermutationSbox, construct_sbox(Circulant(23), 0)}

BulkKeys == {SampleKey(0), SampleKey(2)}

outsideBulk == <<affineVars, aesVars, wht_side, whtVars, nlVars, duVars, imageVars, interleaveVars, padVars, blockVars, scheduleVars, _matrices, cacheVars, serviceVars, roundVars, fieldVars, ciVars, linearVars>>

InitBulk ==
    /\ bulk_input \in {SampleBytes(n, s) : n \in BulkLengths, s \in 0..MaxBulkSeed}
    /\ bulk_other \in OtherInputs(bulk_input)
    /\ bulk_sbox \in BulkSboxes
    /\ \E k \in BulkKeys : bulk_round_keys = key_expansion(k, bulk_sbox)
    /\ bulk_inv_sbox = generate_inverse_sbox(bulk_sbox)
    /\ bulk_cipher = NoBytes
    /\ bulk_other_cipher = NoBytes
    /\ bulk_plain = NoBytes
    /\ bulk_other_plain = NoBytes
    /\ IdleAffine /\ IdleAES /\ IdleMerge /\ IdleWHT /\ IdleNL /\ IdleDU /\ IdleImage /\ IdleInterleave /\ IdlePad /\ IdleBlock /\ IdleSchedule /\ IdleCatalog /\ IdleCache /\ IdleService /\ IdleRounds /\ IdleField /\ IdleCI /\ IdleLinear

VectorEncrypt ==
    /\ bulk_cipher = NoBytes
    /\ bulk_cipher' = _vector_aes_encrypt(bulk_input, bulk_round_keys, bulk_sbox)
    /\ UNCHANGED <<bulk_input, bulk_other, bulk_round_keys, bulk_sbox, bulk_inv_sbox,
                   bulk_other_cipher, bulk_plain, bulk_other_plain, outsideBulk>>

VectorEncryptOther ==
    /\ bulk_cipher # NoBytes
    /\ bulk_other_cipher = NoBytes
    /\ bulk_other_cipher' = _vector_aes_encrypt(bulk_other, bulk_round_keys, bulk_sbox)
    /\ UNCHANGED <<bulk_input, bulk_other, bulk_round_keys, bulk_sbox, bulk_inv_sbox,
                   bulk_cipher, bulk_plain, bulk_other_plain, outsideBulk>>

VectorDecrypt ==
    /\ bulk_other_cipher # NoBytes
    /\ bulk_plain = NoBytes
    /\ bulk_plain' = _vector_aes_decrypt(bulk_cipher, bulk_round_keys, bulk_inv_sbox)
    /\ UNCHANGED <<bulk_input, bulk_other, bulk_round_keys, bulk_sbox, bulk_inv_sbox,
                   bulk_cipher, bulk_other_cipher, bulk_other_plain, outsideBulk>>

VectorDecryptOther ==
    /\ bulk_plain # NoBytes
    /\ bulk_other_plain = NoBytes
    /\ bulk_other_plain' =
           _vector_aes_decrypt(bulk_other_cipher, bulk_round_keys, bulk_inv_sbox)
    /\ UNCHANGED <<bulk_input, bulk_other, bulk_round_keys, bulk_sbox, bulk_inv_sbox,
                   bulk_cipher, bulk_other_cipher, bulk_plain, outsideBulk>>

NextBulk ==
    \/ VectorEncrypt
    \/ VectorEncryptOther
    \/ VectorDecrypt
    \/ VectorDecryptOther

SpecBulk == InitBulk /\ [][NextBulk]_vars

\* the same two calls with the second input equal to the first
InitBulkSame == InitBulk /\ bulk_other = bulk_input

SpecBulkSame == InitBulkSame /\ [][NextBulk]_vars

(***************************************************************************)
(* The statements of one bulk call evaluated block by block: each block    *)
(* runs the statements in program order on its own slice of the state      *)
(* array, the blocks being scheduled in any order, and writes its own      *)
(* output slot after its last statement.                                   *)
(***************************************************************************)
MaxInterleaveSeed == 0

\* one block after padding (5 bytes) and two blocks (16 and 20 bytes)
InterleaveLengths == {5, 16, 20}

InterleaveSboxes == {AESSbox, PermutationSbox}

outsideInterleave == <<affineVars, aesVars, wht_side, whtVars, nlVars, duVars,
                       imageVars, bulkVars, padVars, blockVars, scheduleVars, _matrices, cacheVars, serviceVars, roundVars, fieldVars, ciVars, linearVars>>

\* what the function turns into the state array: the padded plaintext, or
\* the ciphertext as it is
StateBytes(direction, input) ==
    IF direction = "encrypt" THEN padded_data(input) ELSE input

InitInterleave ==
    /\ il_direction \in {"encrypt", "decrypt"}
    /\ \E n \in InterleaveLengths, s \in 0..MaxInterleaveSeed :
           il_input = IF il_direction = "encrypt"
                      THEN SampleBytes(n, s)
                      ELSE SampleBytes(16 * ((n \div 16) + 1), s)
    /\ \E t \in InterleaveSboxes :
           /\ il_round_keys = key_expansion(SampleKey(1), t)
           /\ il_table = IF il_direction = "encrypt"
                         THEN t ELSE generate_inverse_sbox(t)
    /\ il_state = state_from_buffer(StateBytes(il_direction, il_input),
                                    Len(StateBytes(il_direction, il_input)) \div 16)
    /\ il_pc = [n \in 1..Len(il_state) |-> 0]
    /\ il_out = [n \in 1..Len(il_state) |-> <<>>]
    /\ IdleAffine /\ IdleAES /\ IdleMerge /\ IdleWHT /\ IdleNL /\ IdleDU /\ IdleImage /\ IdleBulk /\ IdlePad /\ IdleBlock /\ IdleSchedule /\ IdleCatalog /\ IdleCache /\ IdleService /\ IdleRounds /\ IdleField /\ IdleCI /\ IdleLinear

\* block n alone takes its next encryption statement
EncryptStepBlock(n) ==
    /\ il_direction = "encrypt"
    /\ il_pc[n] < LAST_STEP
    /\ \E next \in {encrypt_step(<<il_state[n]>>, il_pc[n] + 1,
                                  flatten16(il_table), il_round_keys)} :
           /\ il_state' = [il_state EXCEPT ![n] = next[1]]
           /\ il_out' = IF il_pc[n] + 1 = LAST_STEP
                        THEN [il_out EXCEPT ![n] = state_to_buffer(next)]
                        ELSE il_out
    /\ il_pc' = [il_pc EXCEPT ![n] = @ + 1]
    /\ UNCHANGED <<il_direction, il_input, il_round_keys, il_table, outsideInterleave>>

\* block n alone takes its next decryption statement
DecryptStepBlock(n) ==
    /\ il_direction = "decrypt"
    /\ il_pc[n] < LAST_STEP
    /\ \E next \in {decrypt_step(<<il_state[n]>>, il_pc[n] + 1,
                                  flatten16(il_table), il_round_keys)} :
           /\ il_state' = [il_state EXCEPT ![n] = next[1]]
           /\ il_out' = IF il_pc[n] + 1 = LAST_STEP
                        THEN [il_out EXCEPT ![n] = state_to_buffer(next)]
                        ELSE il_out
    /\ il_pc' = [il_pc EXCEPT ![n] = @ + 1]
    /\ UNCHANGED <<il_direction, il_input, il_round_keys, il_table, outsideInterleave>>

NextInterleave ==
    \/ \E n \in 1..Len(il_state) : EncryptStepBlock(n)
    \/ \E n \in 1..Len(il_state) : DecryptStepBlock(n)

SpecInterleave == InitInterleave /\ [][NextInterleave]_vars

(***************************************************************************)
(* The two padding routines applied to one input, and pkcs7_unpad applied  *)
(* to one byte string.                                                     *)
(***************************************************************************)
MaxPadLen == 33

MaxPadSeed == 1

\* the ends tried for pkcs7_unpad: right paddings of 1, 2, 5 and 16 bytes, a
\* last byte of 0, of 17 and of 200, and paddings with one byte off
UnpadTails ==
    { <<1>>, <<2, 2>>, <<5, 5, 5, 5, 5>>, bytes_of(16, 16),
      <<0>>, <<0, 0>>, <<17>>, <<200>>,
      <<3, 2>>, <<2, 3>>, <<5, 5, 4, 5, 5>>, <<4, 5, 5, 5, 5>>,
      <<9>> \o bytes_of(16, 15), bytes_of(16, 14) }

\* what comes before the end: nothing, one byte, 15 and 16 bytes
UnpadBodyLengths == {0, 1, 15, 16}

UnpadInputs ==
    {<<>>} \cup {SampleBytes(n, 1) \o t : n \in UnpadBodyLengths, t \in UnpadTails}

outsidePad == <<affineVars, aesVars, wht_side, whtVars, nlVars, duVars, imageVars,
                bulkVars, interleaveVars, blockVars, scheduleVars, _matrices, cacheVars, serviceVars, roundVars, fieldVars, ciVars, linearVars>>

InitPad ==
    /\ pad_input \in {SampleBytes(n, s) : n \in 0..MaxPadLen, s \in 0..MaxPadSeed}
    /\ pkcs_padded = NoBytes
    /\ inline_padded = NoBytes
    /\ unpad_input \in UnpadInputs
    /\ unpadded = NotCalled
    /\ IdleAffine /\ IdleAES /\ IdleMerge /\ IdleWHT /\ IdleNL /\ IdleDU /\ IdleImage /\ IdleBulk /\ IdleInterleave /\ IdleBlock /\ IdleSchedule /\ IdleCatalog /\ IdleCache /\ IdleService /\ IdleRounds /\ IdleField /\ IdleCI /\ IdleLinear

\* pkcs7_pad(data), block_size left at its default
Pkcs7Pad ==
    /\ pkcs_padded = NoBytes
    /\ pkcs_padded' = pkcs7_pad(pad_input, BLOCK_SIZE)
    /\ UNCHANGED <<pad_input, inline_padded, unpad_input, unpadded, outsidePad>>

\* the padding statements of _vector_aes_encrypt
InlinePad ==
    /\ inline_padded = NoBytes
    /\ inline_padded' = padded_data(pad_input)
    /\ UNCHANGED <<pad_input, pkcs_padded, unpad_input, unpadded, outsidePad>>

Pkcs7Unpad ==
    /\ unpadded = NotCalled
    /\ unpadded' = pkcs7_unpad(unpad_input)
    /\ UNCHANGED <<pad_input, pkcs_padded, inline_padded, unpad_input, outsidePad>>

NextPad ==
    \/ Pkcs7Pad
    \/ InlinePad
    \/ Pkcs7Unpad

SpecPad == InitPad /\ [][NextPad]_vars

(***************************************************************************)
(* The four block functions called with a block and a key of any length.   *)
(***************************************************************************)
MaxBlockSeed == 0

\* lengths of the block and of the key: empty, one byte, one short, exact,
\* one long, two blocks
BlockLengths == {0, 1, 15, 16, 17, 32}

outsideBlock == <<affineVars, aesVars, wht_side, whtVars, nlVars, duVars, imageVars,
                  bulkVars, interleaveVars, padVars, scheduleVars, _matrices, cacheVars, serviceVars, roundVars, fieldVars, ciVars, linearVars>>

InitBlock ==
    /\ blk_data \in {SampleBytes(n, s) : n \in BlockLengths, s \in 0..MaxBlockSeed}
    /\ blk_key \in {SampleBytes(n, s + 5) : n \in BlockLengths, s \in 0..MaxBlockSeed}
    /\ blk_sbox = AESSbox
    /\ blk_enc = NotCalled
    /\ blk_dec = NotCalled
    /\ blk_enc_fast = NotCalled
    /\ blk_dec_fast = NotCalled
    /\ IdleAffine /\ IdleAES /\ IdleMerge /\ IdleWHT /\ IdleNL /\ IdleDU /\ IdleImage /\ IdleBulk /\ IdleInterleave /\ IdlePad /\ IdleSchedule /\ IdleCatalog /\ IdleCache /\ IdleService /\ IdleRounds /\ IdleField /\ IdleCI /\ IdleLinear

BlockEncrypt ==
    /\ blk_enc = NotCalled
    /\ blk_enc' = aes_encrypt_block(blk_data, blk_key, blk_sbox)
    /\ UNCHANGED <<blk_data, blk_key, blk_sbox, blk_dec, blk_enc_fast, blk_dec_fast,
                   outsideBlock>>

BlockDecrypt ==
    /\ blk_dec = NotCalled
    /\ blk_dec' = aes_decrypt_block(blk_data, blk_key, blk_sbox)
    /\ UNCHANGED <<blk_data, blk_key, blk_sbox, blk_enc, blk_enc_fast, blk_dec_fast,
                   outsideBlock>>

\* the fast variants take a key schedule prepared by the caller
BlockEncryptFast ==
    /\ blk_enc_fast = NotCalled
    /\ blk_enc_fast' = aes_encrypt_block_fast(blk_data, blk_sbox,
                                              key_expansion(SampleKey(0), blk_sbox))
    /\ UNCHANGED <<blk_data, blk_key, blk_sbox, blk_enc, blk_dec, blk_dec_fast,
                   outsideBlock>>

BlockDecryptFast ==
    /\ blk_dec_fast = NotCalled
    /\ blk_dec_fast' = aes_decrypt_block_fast(blk_data, generate_inverse_sbox(blk_sbox),
                                              key_expansion(SampleKey(0), blk_sbox))
    /\ UNCHANGED <<blk_data, blk_key, blk_sbox, blk_enc, blk_dec, blk_enc_fast,
                   outsideBlock>>

NextBlock ==
    \/ BlockEncrypt
    \/ BlockDecrypt
    \/ BlockEncryptFast
    \/ BlockDecryptFast

SpecBlock == InitBlock /\ [][NextBlock]_vars

(***************************************************************************)
(* key_expansion called twice with one key and two different S-boxes.      *)
(***************************************************************************)
MaxScheduleSeed == 2

MaxSwapIndex == 20

\* the table t with its entries for the bytes a and b exchanged
SwapEntries(t, a, b) ==
    grid16(list([k \in 1..256 |->
                    IF k - 1 = a THEN sbox_lookup(t, b)
                    ELSE IF k - 1 = b THEN sbox_lookup(t, a)
                    ELSE sbox_lookup(t, k - 1)]))

\* the second tables tried with a first one: an unrelated table, and the
\* first one with the entries of two neighbouring bytes exchanged
OtherSboxes(t) ==
    {construct_sbox(UpperTriangular, 0)}
    \cup {SwapEntries(t, 12 * i, 12 * i + 1) : i \in 0..MaxSwapIndex}

outsideSchedule == <<affineVars, aesVars, wht_side, whtVars, nlVars, duVars, imageVars,
                     bulkVars, interleaveVars, padVars, blockVars, _matrices, cacheVars, serviceVars, roundVars, fieldVars, ciVars, linearVars>>

InitSchedule ==
    /\ ks_key \in {SampleKey(s) : s \in 0..MaxScheduleSeed}
    /\ ks_sbox1 \in {AESSbox, PermutationSbox}
    /\ ks_sbox2 \in OtherSboxes(ks_sbox1)
    /\ ks_first = <<>>
    /\ ks_second = <<>>
    /\ IdleAffine /\ IdleAES /\ IdleMerge /\ IdleWHT /\ IdleNL /\ IdleDU /\ IdleImage /\ IdleBulk /\ IdleInterleave /\ IdlePad /\ IdleBlock /\ IdleCatalog /\ IdleCache /\ IdleService /\ IdleRounds /\ IdleField /\ IdleCI /\ IdleLinear

ExpandFirst ==
    /\ ks_first = <<>>
    /\ ks_first' = key_expansion(ks_key, ks_sbox1)
    /\ UNCHANGED <<ks_key, ks_sbox1, ks_sbox2, ks_second, outsideSchedule>>

ExpandSecond ==
    /\ ks_second = <<>>
    /\ ks_second' = key_expansion(ks_key, ks_sbox2)
    /\ UNCHANGED <<ks_key, ks_sbox1, ks_sbox2, ks_first, outsideSchedule>>

NextSchedule ==
    \/ ExpandFirst
    \/ ExpandSecond

SpecSchedule == InitSchedule /\ [][NextSchedule]_vars

(***************************************************************************)
(* The two services' S-box lookups on one catalog, with clear_cache and    *)
(* reloads of the catalog from a file that may have been edited.           *)
(***************************************************************************)
MaxLookups == 3

CacheIds == {"KAES", "K44", "KNONE"}

\* the catalog after an edit: another matrix under K44, with a constant
EditedCatalog ==
    [Catalog EXCEPT !["K44"] =
        [id |-> "K44", matrix |-> Circulant(7), constant |-> <<49, 70>>]]

\* what reload can find: the file as it was, the edited file, no file
CatalogFiles ==
    { [readable |-> TRUE, matrices |-> Catalog],
      [readable |-> TRUE, matrices |-> EditedCatalog],
      [readable |-> FALSE, matrices |-> Catalog] }

outsideCache == <<affineVars, aesVars, wht_side, whtVars, nlVars, duVars, imageVars,
                  bulkVars, interleaveVars, padVars, blockVars, scheduleVars, serviceVars, roundVars, fieldVars, ciVars, linearVars>>

InitCache ==
    /\ cs_image = new_service
    /\ cs_aes = new_aes_service
    /\ cs_lookup = NoLookup
    /\ cs_calls = 0
    /\ _matrices = _load_matrices([readable |-> TRUE, matrices |-> Catalog])
    /\ IdleAffine /\ IdleAES /\ IdleMerge /\ IdleWHT /\ IdleNL /\ IdleDU /\ IdleImage /\ IdleBulk /\ IdleInterleave /\ IdlePad /\ IdleBlock /\ IdleSchedule /\ IdleService /\ IdleRounds /\ IdleField /\ IdleCI /\ IdleLinear

Lookup(method, sbox_id, out) ==
    [method |-> method, sbox_id |-> sbox_id, exc |-> out.exc, val |-> out.val]

GetSbox ==
    /\ cs_calls < MaxLookups
    /\ \E id \in CacheIds :
          \E out \in {_get_sbox(cs_image, id)} :
              /\ cs_image' = out.self
              /\ cs_lookup' = Lookup("_get_sbox", id, out)
    /\ cs_calls' = cs_calls + 1
    /\ UNCHANGED <<cs_aes, _matrices, outsideCache>>

GetInverseSbox ==
    /\ cs_calls < MaxLookups
    /\ \E id \in CacheIds :
          \E out \in {_get_inverse_sbox(cs_image, id)} :
              /\ cs_image' = out.self
              /\ cs_lookup' = Lookup("_get_inverse_sbox", id, out)
    /\ cs_calls' = cs_calls + 1
    /\ UNCHANGED <<cs_aes, _matrices, outsideCache>>

ResolveSbox ==
    /\ cs_calls < MaxLookups
    /\ \E id \in CacheIds :
          \E out \in {_resolve_sbox(cs_aes, id, <<>>, <<>>, 99)} :
              /\ cs_aes' = out.self
              /\ cs_lookup' = Lookup("_resolve_sbox", id, out)
    /\ cs_calls' = cs_calls + 1
    /\ UNCHANGED <<cs_image, _matrices, outsideCache>>

ClearCache ==
    /\ cs_aes' = clear_cache(cs_aes)
    /\ UNCHANGED <<cs_image, cs_lookup, cs_calls, _matrices, outsideCache>>

\* MatrixService.reload
Reload ==
    /\ \E file \in CatalogFiles : _matrices' = _load_matrices(file)
    /\ UNCHANGED <<cacheVars, outsideCache>>

NextCache ==
    \/ GetSbox
    \/ GetInverseSbox
    \/ ResolveSbox
    \/ ClearCache
    \/ Reload

SpecCache == InitCache /\ [][NextCache]_vars

(***************************************************************************)
(* One text encrypted by AESService.encrypt, and what it returned          *)
(* decrypted by AESService.decrypt with the same key and S-box arguments.  *)
(***************************************************************************)
MaxTextSeed == 1

\* a text of count characters from U+0020..U+007E
SampleText(count, seed) ==
    list([k \in 1..count |-> 32 + (((k - 1) * (2 * seed + 5) + 41 * seed + 40) % 95)])

\* texts of 0, 1, 5, 15, 16 and 17 bytes, among them "h" U+00E9 "llo" (6 bytes),
\* eight times U+00E9 (16 bytes), five times U+20AC (15 bytes) and U+1F600
\* followed by 13 characters (17 bytes)
ServiceTexts ==
    {SampleText(n, s) : n \in {0, 1, 5, 15, 16, 17}, s \in 0..MaxTextSeed}
    \cup { <<104, 233, 108, 108, 111>>,
           list([k \in 1..8 |-> 233]),
           list([k \in 1..5 |-> 8364]),
           <<128512>> \o SampleText(13, 0) }

\* 'TestKey123456789', a key of 16 characters that starts with U+00E9, and
\* the 10 characters 'TestKey123'
ServiceKeys ==
    { <<84, 101, 115, 116, 75, 101, 121, 49, 50, 51, 52, 53, 54, 55, 56, 57>>,
      <<233, 101, 115, 116, 75, 101, 121, 49, 50, 51, 52, 53, 54, 55, 56, 57>>,
      <<84, 101, 115, 116, 75, 101, 121, 49, 50, 51>> }

\* a table a caller can supply that is not a bijection: the AES S-box with
\* the entry of byte 0 overwritten by the entry of byte 1
CollidingSbox == [AESSbox EXCEPT ![1][1] = AESSbox[1][2]]

\* the S-box arguments: an id of the catalog, an unknown id, no argument at
\* all, a custom table, a custom table with a collision, a custom matrix with
\* its constant
SboxArguments ==
    {[sbox_id |-> id, custom_sbox |-> <<>>, custom_matrix |-> <<>>, constant |-> 99] :
        id \in {"KAES", "K44", "KSING", "KNONE", ""}}
    \cup {[sbox_id |-> "", custom_sbox |-> PermutationSbox, custom_matrix |-> <<>>,
           constant |-> 99],
          [sbox_id |-> "", custom_sbox |-> CollidingSbox, custom_matrix |-> <<>>,
           constant |-> 99],
          [sbox_id |-> "", custom_sbox |-> <<>>, custom_matrix |-> UpperTriangular,
           constant |-> 0]}

outsideService == <<affineVars, aesVars, wht_side, whtVars, nlVars, duVars, imageVars,
                    bulkVars, interleaveVars, padVars, blockVars, scheduleVars,
                    _matrices, cacheVars, roundVars, fieldVars, ciVars, linearVars>>

InitService ==
    /\ svc_aes = new_aes_service
    /\ svc_plaintext \in ServiceTexts
    /\ svc_call = NoServiceCall
    /\ svc_encrypted = NotCalled
    /\ svc_decrypted = NotCalled
    /\ IdleAffine /\ IdleAES /\ IdleMerge /\ IdleWHT /\ IdleNL /\ IdleDU /\ IdleImage /\ IdleBulk /\ IdleInterleave /\ IdlePad /\ IdleBlock /\ IdleSchedule /\ IdleCatalog /\ IdleCache /\ IdleRounds /\ IdleField /\ IdleCI /\ IdleLinear

ServiceCall(k, arg) ==
    [key |-> k, sbox_id |-> arg.sbox_id, custom_sbox |-> arg.custom_sbox,
     custom_matrix |-> arg.custom_matrix, constant |-> arg.constant]

ServiceEncrypt ==
    /\ svc_encrypted.exc = "not called"
    /\ \E k \in ServiceKeys, arg \in SboxArguments :
          \E out \in {encrypt(svc_aes, svc_plaintext, k, arg.sbox_id,
                              arg.custom_sbox, arg.custom_matrix, arg.constant)} :
              /\ svc_call' = ServiceCall(k, arg)
              /\ svc_encrypted' = [exc |-> out.exc, val |-> out.val]
              /\ svc_aes' = out.self
    /\ UNCHANGED <<svc_plaintext, svc_decrypted, outsideService>>

ServiceDecrypt ==
    /\ svc_encrypted.exc = "none"
    /\ svc_decrypted.exc = "not called"
    /\ \E out \in {decrypt(svc_aes, svc_encrypted.val, svc_call.key,
                           svc_call.sbox_id, svc_call.custom_sbox,
                           svc_call.custom_matrix, svc_call.constant)} :
          /\ svc_decrypted' = [exc |-> out.exc, val |-> out.val]
          /\ svc_aes' = out.self
    /\ UNCHANGED <<svc_plaintext, svc_call, svc_encrypted, outsideService>>

NextService ==
    \/ ServiceEncrypt
    \/ ServiceDecrypt

SpecService == InitService /\ [][NextService]_vars

(***************************************************************************)
(* One call of a block function of core/aes.py, statement by statement.    *)
(***************************************************************************)
MaxRoundSeed == 1

EncryptFunctions == {"aes_encrypt_block", "aes_encrypt_block_fast"}

DecryptFunctions == {"aes_decrypt_block", "aes_decrypt_block_fast"}

\* the fast variants are handed the key schedule and the inverse table
FastFunctions == {"aes_encrypt_block_fast", "aes_decrypt_block_fast"}

RoundSboxes == {AESSbox, PermutationSbox}

\* range(1, NUM_ROUNDS + 1)
main_rounds_to_last == [i \in 1..NUM_ROUNDS |-> i]

\* range(1, NUM_ROUNDS) of the encryption loop
main_rounds == [i \in 1..(NUM_ROUNDS - 1) |-> i]

\* range(NUM_ROUNDS - 1, 0, -1) of the decryption loop
main_rounds_reversed == [i \in 1..(NUM_ROUNDS - 1) |-> NUM_ROUNDS - i]

outsideRounds == <<affineVars, aesVars, wht_side, whtVars, nlVars, duVars, imageVars,
                   bulkVars, interleaveVars, padVars, blockVars, scheduleVars,
                   _matrices, cacheVars, serviceVars, fieldVars, ciVars, linearVars>>

InitRounds ==
    /\ rs_function \in EncryptFunctions \cup DecryptFunctions
    /\ rs_input \in {SamplePlaintext(s) : s \in 0..MaxRoundSeed}
    /\ rs_key = SampleKey(0)
    /\ rs_sbox \in RoundSboxes
    /\ rs_round_keys = IF rs_function \in FastFunctions
                       THEN key_expansion(rs_key, rs_sbox) ELSE <<>>
    /\ rs_inv_sbox = IF rs_function = "aes_decrypt_block_fast"
                     THEN generate_inverse_sbox(rs_sbox) ELSE NoTable
    /\ rs_state = <<>>
    /\ rs_iter = 0
    /\ rs_pc = "begin"
    /\ rs_steps = <<>>
    /\ rs_out = NoBytes
    /\ IdleAffine /\ IdleAES /\ IdleMerge /\ IdleWHT /\ IdleNL /\ IdleDU /\ IdleImage /\ IdleBulk /\ IdleInterleave /\ IdlePad /\ IdleBlock /\ IdleSchedule /\ IdleCatalog /\ IdleCache /\ IdleService /\ IdleField /\ IdleCI /\ IdleLinear

\* a transformation, and the index of the round key it uses if it uses one
Applied(op, k) == [op |-> op, key |-> k]

Keyless == 0 - 1

\* one assignment "state = ..." at the statement here, control going on to
\* there with the loop at position iter
Statement(here, new_state, entry, there, iter) ==
    /\ rs_pc = here
    /\ rs_state' = new_state
    /\ rs_steps' = Append(rs_steps, entry)
    /\ rs_pc' = there
    /\ rs_iter' = iter
    /\ UNCHANGED <<rs_function, rs_input, rs_key, rs_sbox, rs_round_keys,
                   rs_inv_sbox, rs_out, outsideRounds>>

\* the key schedule and the inverse table (the plain variants compute them),
\* then "state = bytes_to_state(..)"
Begin ==
    /\ rs_pc = "begin"
    /\ rs_round_keys' = IF rs_function \in FastFunctions THEN rs_round_keys
                        ELSE key_expansion(rs_key, rs_sbox)
    /\ rs_inv_sbox' = IF rs_function = "aes_decrypt_block"
                      THEN generate_inverse_sbox(rs_sbox) ELSE rs_inv_sbox
    /\ rs_state' = bytes_to_state(rs_input)
    /\ rs_pc' = "initial_add_round_key"
    /\ UNCHANGED <<rs_function, rs_input, rs_key, rs_sbox, rs_iter, rs_steps,
                   rs_out, outsideRounds>>

\* where control goes when a for loop over rounds is entered at position
\* iter: into its body, or past it when the range is used up
LoopEnter(rounds, iter, body, after) == IF iter <= Len(rounds) THEN body ELSE after

EncInitialAddRoundKey ==
    /\ rs_function \in EncryptFunctions
    /\ Statement("initial_add_round_key",
                 add_round_key(rs_state, rs_round_keys[1]),
                 Applied("AddRoundKey", 0),
                 LoopEnter(main_rounds, 1, "sub_bytes", "final_sub_bytes"), 1)

EncSubBytes ==
    /\ rs_function \in EncryptFunctions
    /\ Statement("sub_bytes", sub_bytes(rs_state, rs_sbox),
                 Applied("SubBytes", Keyless), "shift_rows", rs_iter)

EncShiftRows ==
    /\ rs_function \in EncryptFunctions
    /\ Statement("shift_rows", shift_rows(rs_state),
                 Applied("ShiftRows", Keyless), "mix_columns", rs_iter)

EncMixColumns ==
    /\ rs_function \in EncryptFunctions
    /\ Statement("mix_columns", mix_columns(rs_state),
                 Applied("MixColumns", Keyless), "add_round_key", rs_iter)

EncAddRoundKey ==
    /\ rs_function \in EncryptFunctions
    /\ Statement("add_round_key",
                 add_round_key(rs_state, rs_round_keys[main_rounds[rs_iter] + 1]),
                 Applied("AddRoundKey", main_rounds[rs_iter]),
                 LoopEnter(main_rounds, rs_iter + 1, "sub_bytes", "final_sub_bytes"),
                 rs_iter + 1)

EncFinalSubBytes ==
    /\ rs_function \in EncryptFunctions
    /\ Statement("final_sub_bytes", sub_bytes(rs_state, rs_sbox),
                 Applied("SubBytes", Keyless), "final_shift_rows", rs_iter)

EncFinalShiftRows ==
    /\ rs_function \in EncryptFunctions
    /\ Statement("final_shift_rows", shift_rows(rs_state),
                 Applied("ShiftRows", Keyless), "final_add_round_key", rs_iter)

EncFinalAddRoundKey ==
    /\ rs_function \in EncryptFunctions
    /\ Statement("final_add_round_key",
                 add_round_key(rs_state, rs_round_keys[NUM_ROUNDS + 1]),
                 Applied("AddRoundKey", NUM_ROUNDS), "return", rs_iter)

DecInitialAddRoundKey ==
    /\ rs_function \in DecryptFunctions
    /\ Statement("initial_add_round_key",
                 add_round_key(rs_state, rs_round_keys[NUM_ROUNDS + 1]),
                 Applied("AddRoundKey", NUM_ROUNDS), "initial_inv_shift_rows", rs_iter)

DecInitialInvShiftRows ==
    /\ rs_function \in DecryptFunctions
    /\ Statement("initial_inv_shift_rows", inv_shift_rows(rs_state),
                 Applied("InvShiftRows", Keyless), "initial_inv_sub_bytes", rs_iter)

DecInitialInvSubBytes ==
    /\ rs_function \in DecryptFunctions
    /\ Statement("initial_inv_sub_bytes", inv_sub_bytes(rs_state, rs_inv_sbox),
                 Applied("InvSubBytes", Keyless),
                 LoopEnter(main_rounds_reversed, 1, "add_round_key",
                           "final_add_round_key"), 1)

DecAddRoundKey ==
    /\ rs_function \in DecryptFunctions
    /\ Statement("add_round_key",
                 add_round_key(rs_state,
                               rs_round_keys[main_rounds_reversed[rs_iter] + 1]),
                 Applied("AddRoundKey", main_rounds_reversed[rs_iter]),
                 "inv_mix_columns", rs_iter)

DecInvMixColumns ==
    /\ rs_function \in DecryptFunctions
    /\ Statement("inv_mix_columns", inv_mix_columns(rs_state),
                 Applied("InvMixColumns", Keyless), "inv_shift_rows", rs_iter)

DecInvShiftRows ==
    /\ rs_function \in DecryptFunctions
    /\ Statement("inv_shift_rows", inv_shift_rows(rs_state),
                 Applied("InvShiftRows", Keyless), "inv_sub_bytes", rs_iter)

DecInvSubBytes ==
    /\ rs_function \in DecryptFunctions
    /\ Statement("inv_sub_bytes", inv_sub_bytes(rs_state, rs_inv_sbox),
                 Applied("InvSubBytes", Keyless),
                 LoopEnter(main_rounds_reversed, rs_iter + 1, "add_round_key",
                           "final_add_round_key"),
                 rs_iter + 1)

DecFinalAddRoundKey ==
    /\ rs_function \in DecryptFunctions
    /\ Statement("final_add_round_key",
                 add_round_key(rs_state, rs_round_keys[1]),
                 Applied("AddRoundKey", 0), "return", rs_iter)

\* "return state_to_bytes(state)"
ReturnBytes ==
    /\ rs_pc = "return"
    /\ rs_out' = state_to_bytes(rs_state)
    /\ rs_pc' = "done"
    /\ UNCHANGED <<rs_function, rs_input, rs_key, rs_sbox, rs_round_keys,
                   rs_inv_sbox, rs_state, rs_iter, rs_steps, outsideRounds>>

NextRounds ==
    \/ Begin
    \/ EncInitialAddRoundKey
    \/ EncSubBytes
    \/ EncShiftRows
    \/ EncMixColumns
    \/ EncAddRoundKey
    \/ EncFinalSubBytes
    \/ EncFinalShiftRows
    \/ EncFinalAddRoundKey
    \/ DecInitialAddRoundKey
    \/ DecInitialInvShiftRows
    \/ DecInitialInvSubBytes
    \/ DecAddRoundKey
    \/ DecInvMixColumns
    \/ DecInvShiftRows
    \/ DecInvSubBytes
    \/ DecFinalAddRoundKey
    \/ ReturnBytes

SpecRounds == InitRounds /\ [][NextRounds]_vars

\* the statements of the encryption functions, of the decryption functions
EncryptLabels ==
    {"begin", "initial_add_round_key", "sub_bytes", "shift_rows", "mix_columns",
     "add_round_key", "final_sub_bytes", "final_shift_rows", "final_add_round_key",
     "return"}

DecryptLabels ==
    {"begin", "initial_add_round_key", "initial_inv_shift_rows",
     "initial_inv_sub_bytes", "add_round_key", "inv_mix_columns", "inv_shift_rows",
     "inv_sub_bytes", "final_add_round_key", "return"}

\* control moves on from a statement
Runs == rs_pc # "done" /\ rs_pc' \in EncryptLabels \cup DecryptLabels \cup {"done"}

\* a call is a straight run of statements that wait for nothing: control
\* does not rest at a statement forever
SpecRoundsFair == SpecRounds /\ WF_rs_pc(Runs)

(***************************************************************************)
(* The field operations on one byte: gf_mul run pass by pass with a second *)
(* byte, and the inverse of the byte taken by gf_inverse, by gf_pow and    *)
(* from INVERSE_TABLE.                                                     *)
(***************************************************************************)
outsideField == <<affineVars, aesVars, wht_side, whtVars, nlVars, duVars, imageVars,
                  bulkVars, interleaveVars, padVars, blockVars, scheduleVars,
                  _matrices, cacheVars, serviceVars, roundVars, ciVars, linearVars>>

InitField ==
    /\ gf_x \in Byte
    /\ gf_y = 0
    /\ gf_st = NoLocals
    /\ gf_pc = "idle"
    /\ gf_passes = 0
    /\ gf_inv = NoInverse
    /\ IdleAffine /\ IdleAES /\ IdleMerge /\ IdleWHT /\ IdleNL /\ IdleDU /\ IdleImage /\ IdleBulk /\ IdleInterleave /\ IdlePad /\ IdleBlock /\ IdleSchedule /\ IdleCatalog /\ IdleCache /\ IdleService /\ IdleRounds /\ IdleCI /\ IdleLinear

\* gf_mul(gf_x, b) is called: "result = 0"
MulCall ==
    /\ gf_pc = "idle"
    /\ \E b \in Byte :
          /\ gf_y' = b
          /\ gf_st' = [result |-> 0, a |-> gf_x, b |-> b]
    /\ gf_pc' = "while"
    /\ UNCHANGED <<gf_x, gf_passes, gf_inv, outsideField>>

\* "while b:" is true and the body runs once
MulPass ==
    /\ gf_pc = "while"
    /\ gf_st.b # 0
    /\ gf_st' = gf_mul_body(gf_st)
    /\ gf_passes' = gf_passes + 1
    /\ UNCHANGED <<gf_x, gf_y, gf_pc, gf_inv, outsideField>>

\* "while b:" is false: "return result"
MulReturn ==
    /\ gf_pc = "while"
    /\ gf_st.b = 0
    /\ gf_pc' = "return"
    /\ UNCHANGED <<gf_x, gf_y, gf_st, gf_passes, gf_inv, outsideField>>

\* gf_inverse(gf_x), gf_pow(gf_x, 254) and get_inverse(gf_x) are called, and
\* gf_mul on gf_x and what gf_inverse returned
Invert ==
    /\ gf_pc = "idle"
    /\ gf_inv' = [gf_inverse  |-> gf_inverse(gf_x),
                  gf_pow      |-> gf_pow(gf_x, 254),
                  get_inverse |-> get_inverse(gf_x),
                  product     |-> gf_mul(gf_x, gf_inverse(gf_x))]
    /\ gf_pc' = "inverted"
    /\ UNCHANGED <<gf_x, gf_y, gf_st, gf_passes, outsideField>>

NextField ==
    \/ MulCall
    \/ MulPass
    \/ MulReturn
    \/ Invert

SpecField == InitField /\ [][NextField]_vars

\* a call of gf_mul that has started goes on executing its statements
SpecFieldFair == SpecField /\ WF_<<gf_st, gf_pc>>(MulPass \/ MulReturn)

(***************************************************************************)
(* compute_correlation_immunity, one pass of its loop per step.            *)
(***************************************************************************)
MaxAffineConstant == 11

\* x -> M x + c over GF(2), M the AES matrix: every output bit is an affine
\* function of five input bits
AffineMap(c) == list([k \in 1..256 |-> apply_affine_transform(k - 1, AESMatrix, c)])

ConstantMap(c) == list([k \in 1..256 |-> c])

ImmunitySboxes ==
    MetricSboxes \cup {ConstantMap(0), ConstantMap(255)}
        \cup {AffineMap(c) : c \in 0..MaxAffineConstant}

outsideCI == <<affineVars, aesVars, whtVars, nlVars, duVars, imageVars, bulkVars,
               interleaveVars, padVars, blockVars, scheduleVars, _matrices,
               cacheVars, serviceVars, roundVars, fieldVars, linearVars>>

InitCI ==
    /\ wht_side \in MergeSides
    /\ ci_sbox \in ImmunitySboxes
    /\ ci_bit = 0
    /\ ci_return = "none"
    /\ ci_result = NotReturned
    /\ IdleAffine /\ IdleAES /\ IdleWHT /\ IdleNL /\ IdleDU /\ IdleImage /\ IdleBulk /\ IdleInterleave /\ IdlePad /\ IdleBlock /\ IdleSchedule /\ IdleCatalog /\ IdleCache /\ IdleService /\ IdleRounds /\ IdleField /\ IdleLinear

\* one pass of "for bit in range(8)" that finds a nonzero coefficient:
\* "return 0" inside the loop
ImmunityEarlyReturn ==
    /\ ci_result = NotReturned
    /\ ci_bit < 8
    /\ any_weight1_nonzero(ci_sbox, ci_bit)
    /\ ci_return' = "in loop"
    /\ ci_result' = Return(0)
    /\ UNCHANGED <<wht_side, ci_sbox, ci_bit, outsideCI>>

\* one pass that finds none
ImmunityPass ==
    /\ ci_result = NotReturned
    /\ ci_bit < 8
    /\ ~any_weight1_nonzero(ci_sbox, ci_bit)
    /\ ci_bit' = ci_bit + 1
    /\ UNCHANGED <<wht_side, ci_sbox, ci_return, ci_result, outsideCI>>

\* "return 0" after the loop
ImmunityReturn ==
    /\ ci_result = NotReturned
    /\ ci_bit = 8
    /\ ci_return' = "after loop"
    /\ ci_result' = Return(0)
    /\ UNCHANGED <<wht_side, ci_sbox, ci_bit, outsideCI>>

NextCI ==
    \/ ImmunityEarlyReturn
    \/ ImmunityPass
    \/ ImmunityReturn

SpecCI == InitCI /\ [][NextCI]_vars

(***************************************************************************)
(* compute_lap, one column of c_matrix per step, then compute_nonlinearity *)
(* on the same S-box, one pass of its loop per step.                       *)
(***************************************************************************)
outsideLinear == <<affineVars, aesVars, whtVars, nlVars, duVars, imageVars, bulkVars,
                   interleaveVars, padVars, blockVars, scheduleVars, _matrices,
                   cacheVars, serviceVars, roundVars, fieldVars, ciVars>>

InitLinear ==
    /\ wht_side \in MergeSides
    /\ lin_sbox \in MetricSboxes
    /\ lin_column = 1
    /\ lin_max_abs_sum = 0
    /\ lin_lap = NoFloat
    /\ lin_b = 0
    /\ lin_min_nl = 0
    /\ lin_nl = NotReturned
    /\ IdleAffine /\ IdleAES /\ IdleWHT /\ IdleNL /\ IdleDU /\ IdleImage /\ IdleBulk /\ IdleInterleave /\ IdlePad /\ IdleBlock /\ IdleSchedule /\ IdleCatalog /\ IdleCache /\ IdleService /\ IdleRounds /\ IdleField /\ IdleCI

\* column lin_column of "c_matrix = IP @ OP.T" and its share of
\* "np.max(np.abs(c_matrix))"
LapColumn ==
    /\ lin_lap = NoFloat
    /\ lin_column < 256
    /\ lin_max_abs_sum' = lap_pass(lin_sbox, lin_column, lin_max_abs_sum)
    /\ lin_column' = lin_column + 1
    /\ UNCHANGED <<wht_side, lin_sbox, lin_lap, lin_b, lin_min_nl, lin_nl, outsideLinear>>

\* "return float(max_abs_sum) / 512.0": max_abs_sum is a whole number of at
\* most 256, which float32 and float64 hold exactly
LapReturn ==
    /\ lin_lap = NoFloat
    /\ lin_column = 256
    /\ lin_lap' = Return([num |-> lin_max_abs_sum, den |-> 512])
    /\ UNCHANGED <<wht_side, lin_sbox, lin_column, lin_max_abs_sum, lin_b, lin_min_nl,
                   lin_nl, outsideLinear>>

\* compute_nonlinearity is called on the same S-box: min_nl = float('inf')
NonlinearityCall ==
    /\ lin_lap # NoFloat
    /\ lin_b = 0
    /\ lin_b' = 1
    /\ lin_min_nl' = float_inf
    /\ UNCHANGED <<wht_side, lin_sbox, lin_column, lin_max_abs_sum, lin_lap, lin_nl,
                   outsideLinear>>

\* one pass of "for b in range(1, 256)"
NonlinearityMask ==
    /\ lin_nl = NotReturned
    /\ lin_b \in 1..255
    /\ lin_min_nl' = nonlinearity_pass(lin_sbox, lin_b, lin_min_nl)
    /\ lin_b' = lin_b + 1
    /\ UNCHANGED <<wht_side, lin_sbox, lin_column, lin_max_abs_sum, lin_lap, lin_nl,
                   outsideLinear>>

\* return int(min_nl)
NonlinearityResult ==
    /\ lin_nl = NotReturned
    /\ lin_b = 256
    /\ lin_nl' = Return(lin_min_nl)
    /\ UNCHANGED <<wht_side, lin_sbox, lin_column, lin_max_abs_sum, lin_lap, lin_b,
                   lin_min_nl, outsideLinear>>

NextLinear ==
    \/ LapColumn
    \/ LapReturn
    \/ NonlinearityCall
    \/ NonlinearityMask
    \/ NonlinearityResult

SpecLinear == InitLinear /\ [][NextLinear]_vars

(***************************************************************************)
(* Reference notions used by the properties.                               *)
(***************************************************************************)
IsBinary8(m) == IsSquare8(m) /\ \A i \in 1..8, j \in 1..8 : m[i][j] \in {0, 1}

\* rank over GF(2) by Gaussian elimination modulo 2; st as in matrix_rank_loop
RECURSIVE RankGF2Loop(_)
RankGF2Loop(st) ==
    IF st.col > 8 \/ st.done = 8 THEN st.done
    ELSE LET top  == st.done + 1
             rows == {i \in top..8 : st.M[i][st.col] = 1}
         IN  IF rows = {}
             THEN RankGF2Loop([st EXCEPT !.col = st.col + 1])
             ELSE LET p  == CHOOSE i \in rows : \A k \in rows : i <= k
                      Sw == list([i \in 1..8 |-> IF i = top THEN st.M[p]
                                                 ELSE IF i = p THEN st.M[top]
                                                 ELSE st.M[i]])
                      El == list([i \in 1..8 |->
                                IF i <= top \/ Sw[i][st.col] = 0 THEN Sw[i]
                                ELSE list([j \in 1..8 |-> (Sw[i][j] + Sw[top][j]) % 2])])
                  IN  RankGF2Loop([M |-> El, done |-> top, col |-> st.col + 1])

RankGF2(m) == RankGF2Loop([M |-> m, done |-> 0, col |-> 1])

FullRankGF2(m) == IsBinary8(m) /\ RankGF2(m) = 8

\* a 16x16 grid holding every byte value exactly once
IsBijectiveGrid(g) ==
    /\ Len(g) = 16
    /\ \A r \in 1..16 : Len(g[r]) = 16 /\ \A c \in 1..16 : g[r][c] \in Byte
    /\ Cardinality({g[r][c] : r \in 1..16, c \in 1..16}) = 256

\* inv[S[x]] = x for every byte x
IsInverseOf(inv, S) ==
    \A v \in Byte :
        LET s == S[(v \div 16) + 1][(v % 16) + 1]
        IN  inv[(s \div 16) + 1][(s % 16) + 1] = v

\* the S-box of FIPS-197, figure 7
CanonicalAESSbox ==
    << << 99, 124, 119, 123, 242, 107, 111, 197,  48,   1, 103,  43, 254, 215, 171, 118>>,
       <<202, 130, 201, 125, 250,  89,  71, 240, 173, 212, 162, 175, 156, 164, 114, 192>>,
       <<183, 253, 147,  38,  54,  63, 247, 204,  52, 165, 229, 241, 113, 216,  49,  21>>,
       <<  4, 199,  35, 195,  24, 150,   5, 154,   7,  18, 128, 226, 235,  39, 178, 117>>,
       <<  9, 131,  44,  26,  27, 110,  90, 160,  82,  59, 214, 179,  41, 227,  47, 132>>,
       << 83, 209,   0, 237,  32, 252, 177,  91, 106, 203, 190,  57,  74,  76,  88, 207>>,
       <<208, 239, 170, 251,  67,  77,  51, 133,  69, 249,   2, 127,  80,  60, 159, 168>>,
       << 81, 163,  64, 143, 146, 157,  56, 245, 188, 182, 218,  33,  16, 255, 243, 210>>,
       <<205,  12,  19, 236,  95, 151,  68,  23, 196, 167, 126,  61, 100,  93,  25, 115>>,
       << 96, 129,  79, 220,  34,  42, 144, 136,  70, 238, 184,  20, 222,  94,  11, 219>>,
       <<224,  50,  58,  10,  73,   6,  36,  92, 194, 211, 172,  98, 145, 149, 228, 121>>,
       <<231, 200,  55, 109, 141, 213,  78, 169, 108,  86, 244, 234, 101, 122, 174,   8>>,
       <<186, 120,  37,  46,  28, 166, 180, 198, 232, 221, 116,  31,  75, 189, 139, 138>>,
       <<112,  62, 181, 102,  72,   3, 246,  14,  97,  53,  87, 185, 134, 193,  29, 158>>,
       <<225, 248, 152,  17, 105, 217, 142, 148, 155,  30, 135, 233, 206,  85,  40, 223>>,
       <<140, 161, 137,  13, 191, 230,  66, 104,  65, 153,  45,  15, 176,  84, 187,  22>> >>

(***************************************************************************)
(* C2: validate_matrix returns valid exactly for the matrices with 8 rows  *)
(* of 8 entries, all 0 or 1, whose rank over GF(2) is 8.                   *)
(* Violated: the rank is taken over the reals, so a matrix that is         *)
(* singular over GF(2) but not over the reals is accepted.                 *)
(***************************************************************************)
C2_ValidIffFullRankGF2 ==
    validation # NotValidated => (validation.is_valid <=> FullRankGF2(matrix))

\* what the code does decide: shape, binary entries and rank 8 over the reals
C2_ValidIffFullRankReal ==
    validation # NotValidated =>
        (validation.is_valid <=> (IsBinary8(matrix) /\ matrix_rank(matrix) = 8))

C2_AcceptedSingular ==
    /\ validation # NotValidated
    /\ validation.is_valid
    /\ IsBinary8(matrix)
    /\ RankGF2(matrix) < 8

(***************************************************************************)
(* C3: for a binary 8x8 matrix of rank 8 over GF(2) and any constant,      *)
(* construct_sbox returns a 16x16 table whose 256 entries are pairwise     *)
(* distinct bytes.                                                         *)
(***************************************************************************)
C3_FullRankGivesBijection ==
    (sbox # NoTable /\ FullRankGF2(matrix)) => IsBijectiveGrid(sbox)

C3_Witness ==
    /\ sbox # NoTable
    /\ FullRankGF2(matrix)
    /\ matrix # AESMatrix
    /\ constant = 0

(***************************************************************************)
(* C4: with the AES affine matrix and constant 0x63 construct_sbox gives   *)
(* the canonical AES S-box at every index; S(0x00) = 0x63, S(0x53) = 0xED. *)
(***************************************************************************)
C4_ReproducesAESSbox ==
    (sbox # NoTable /\ matrix = AESMatrix /\ constant = 99) =>
        /\ sbox = CanonicalAESSbox
        /\ sbox[1][1] = 99
        /\ sbox[6][4] = 237

C4_Witness == sbox # NoTable /\ matrix = AESMatrix /\ constant = 99

(***************************************************************************)
(* C5: for a full-rank matrix m and constant c, with S = construct_sbox(m, *)
(* c): construct_inverse_sbox(m, c) and generate_inverse_sbox(S) both      *)
(* satisfy inv[S[x]] = x for every x, and they are the same table.         *)
(***************************************************************************)
C5_InverseRoundTrip ==
    (/\ sbox # NoTable
     /\ inv_sbox # NoTable
     /\ gen_inv_sbox # NoTable
     /\ FullRankGF2(matrix)) =>
        /\ IsInverseOf(inv_sbox, sbox)
        /\ IsInverseOf(gen_inv_sbox, sbox)
        /\ inv_sbox = gen_inv_sbox

C5_Witness ==
    /\ sbox # NoTable
    /\ inv_sbox # NoTable
    /\ gen_inv_sbox # NoTable
    /\ FullRankGF2(matrix)
    /\ constant = 99

(***************************************************************************)
(* C1: for every 16-byte plaintext p, 16-byte key k and bijective S-box s, *)
(* aes_decrypt_block(aes_encrypt_block(p, k, s), k, s) = p.                *)
(***************************************************************************)
C1_DecryptInvertsEncrypt ==
    (decrypted # NotCalled /\ IsBijectiveGrid(cipher_sbox)) =>
        /\ ciphertext.exc = "none"
        /\ Len(ciphertext.val) = 16
        /\ decrypted = Return(plaintext)

C1_Witness ==
    /\ decrypted # NotCalled
    /\ IsBijectiveGrid(cipher_sbox)
    /\ cipher_sbox = PermutationSbox
    /\ ciphertext.val # plaintext

\* FIPS-197 appendix C.1: the known ciphertext of 00112233..ff under 000102..0f
C1_KnownAnswer ==
    (/\ ciphertext # NotCalled
     /\ plaintext = SamplePlaintext(0)
     /\ key = SampleKey(0)
     /\ cipher_sbox = CanonicalAESSbox) =>
        ciphertext.val = <<105, 196, 224, 216, 106, 123, 4, 48,
                           216, 205, 183, 128, 112, 180, 197, 90>>

(***************************************************************************)
(* C6: the explicit butterfly loop and the blocked/reshape form of the     *)
(* Walsh-Hadamard transform return identical outputs for every 0/1 input   *)
(* function of length 256 and of every power-of-two length (e.g. the       *)
(* length-8 function of the test).                                         *)
(***************************************************************************)
C6_FormulationsAgree ==
    (std_spectrum # NoTable /\ vec_spectrum # NoTable) =>
        std_spectrum = vec_spectrum

\* what the two forms do share: the entry at index 0, the sum of the signs
C6_AgreeAtIndexZero ==
    (std_spectrum # NoTable /\ vec_spectrum # NoTable) =>
        std_spectrum[1] = vec_spectrum[1]

(***************************************************************************)
(* C7: walsh_hadamard_transform applied to the all-zero 256-entry Boolean  *)
(* function returns 256 at index 0 and 0 at every other index.             *)
(***************************************************************************)
C7_ZeroFunctionSpectrum ==
    (spectrum # NoTable /\ test_func = ZeroFunction256) =>
        /\ Len(spectrum) = 256
        /\ spectrum[1] = 256
        /\ \A k \in 2..256 : spectrum[k] = 0

\* the statement holds on side HEAD of the merge
C7_ZeroFunctionSpectrumOnHEAD ==
    (spectrum # NoTable /\ test_func = ZeroFunction256 /\ wht_side = "HEAD") =>
        /\ Len(spectrum) = 256
        /\ spectrum[1] = 256
        /\ \A k \in 2..256 : spectrum[k] = 0

(***************************************************************************)
(* C8: compute_nonlinearity applied to the canonical AES S-box returns     *)
(* exactly 112, the minimum over masks b in 1..255 of (256 - max|W_b|)/2,  *)
(* W_b the Walsh spectrum of f_b(x) = parity(b & S(x)).                    *)
(***************************************************************************)
C8_NonlinearityOfAES ==
    (nl_result # NotReturned /\ nl_sbox = flatten16(CanonicalAESSbox)) =>
        nl_result = Return(112)

\* the statement holds on side HEAD of the merge
C8_NonlinearityOfAESOnHEAD ==
    (nl_result # NotReturned /\ nl_sbox = flatten16(CanonicalAESSbox)
        /\ wht_side = "HEAD") =>
        nl_result = Return(112)

(***************************************************************************)
(* C9: compute_differential_uniformity applied to the canonical AES S-box  *)
(* returns exactly 4, the maximum, over every nonzero input difference dx  *)
(* and every output difference dy, of the number of x with                 *)
(* S(x) xor S(x xor dx) = dy.                                              *)
(***************************************************************************)
\* the largest number of inputs x sharing one output difference, for one dx
MaxDifferenceCount(S, dx) ==
    LET dy == list([k \in 1..256 |-> XOR(S[k], S[XOR(k - 1, dx) + 1])])
        count == list([v \in 1..256 |-> Cardinality({k \in 1..256 : dy[k] = v - 1})])
    IN  CHOOSE m \in 0..256 :
            /\ \E v \in 1..256 : count[v] = m
            /\ \A v \in 1..256 : count[v] <= m

C9_DifferentialUniformityOfAES ==
    /\ [](du_result # NotReturned =>
            /\ du_delta_x = 256
            /\ du_result = Return(max_count)
            /\ (du_sbox = flatten16(CanonicalAESSbox) => du_result = Return(4)))
    /\ [][du_delta_x' = du_delta_x + 1 =>
            LET m == MaxDifferenceCount(du_sbox, du_delta_x)
            IN  max_count' = IF m > max_count THEN m ELSE max_count]_vars

C9_Witness ==
    /\ du_result = Return(4)
    /\ du_sbox = flatten16(CanonicalAESSbox)
    /\ du_delta_x = 256

(***************************************************************************)
(* C10: for every pixel buffer whose length is an exact multiple of 16,    *)
(* every key and every bijective S-box, bulk encryption (encrypt_image's   *)
(* _vector_aes_encrypt and truncation to the buffer size) followed by bulk *)
(* decryption (decrypt_image's _vector_aes_decrypt) returns the original   *)
(* buffer exactly.                                                         *)
(***************************************************************************)
\* decrypt_image has run on the output of encrypt_image with the same key and
\* the same S-box id, the S-box is a bijection and the buffer is block-aligned
AlignedRoundTripDone ==
    /\ decrypted_image.exc # "not called"
    /\ decrypt_call = encrypt_call
    /\ Len(original_image.pixels) % 16 = 0
    /\ IsBijectiveGrid(img_service._sbox_cache[encrypt_call.sbox_id])

C10_AlignedRoundTrip ==
    AlignedRoundTripDone =>
        /\ decrypted_image.exc = "none"
        /\ decrypted_image.val = original_image

C10_Witness ==
    /\ AlignedRoundTripDone
    /\ Len(original_image.pixels) = 96
    /\ encrypt_call.sbox_id = "K44"
    /\ Len(encrypt_call.key) = 17
    /\ encrypted_image.val.pixels # original_image.pixels

(***************************************************************************)
(* C11: the bulk engine applies the single-block cipher to each block. For *)
(* every input, key schedule and S-box, block j of what                    *)
(* _vector_aes_encrypt returns is aes_encrypt_block_fast of block j of the *)
(* padded input, and block j of what _vector_aes_decrypt returns is        *)
(* aes_decrypt_block_fast of block j of the ciphertext; the tables MUL2,   *)
(* MUL3, MUL9, MUL11, MUL13 and MUL14 hold gf_mul by 2, 3, 9, 11, 13, 14.  *)
(***************************************************************************)
Block(data, j) == SubSeq(data, 16 * (j - 1) + 1, 16 * j)

MulTablesAreGfMul ==
    \A v \in 0..255 :
        /\ lut(MUL2, v) = gf_mul(v, 2)
        /\ lut(MUL3, v) = gf_mul(v, 3)
        /\ lut(MUL9, v) = gf_mul(v, 9)
        /\ lut(MUL11, v) = gf_mul(v, 11)
        /\ lut(MUL13, v) = gf_mul(v, 13)
        /\ lut(MUL14, v) = gf_mul(v, 14)

\* output is, block by block, the single-block encryption of data
EncryptsEachBlock(data, output) ==
    /\ Len(output) = Len(data)
    /\ \A j \in 1..(Len(data) \div 16) :
           Return(Block(output, j)) =
               aes_encrypt_block_fast(Block(data, j), bulk_sbox, bulk_round_keys)

\* output is, block by block, the single-block decryption of data
DecryptsEachBlock(data, output) ==
    /\ Len(output) = Len(data)
    /\ \A j \in 1..(Len(data) \div 16) :
           Return(Block(output, j)) =
               aes_decrypt_block_fast(Block(data, j), bulk_inv_sbox, bulk_round_keys)

C11_BulkIsBlockCipher ==
    /\ [](MulTablesAreGfMul)
    /\ [][/\ bulk_cipher' # bulk_cipher
             => EncryptsEachBlock(padded_data(bulk_input), bulk_cipher')
          /\ bulk_plain' # bulk_plain
             => DecryptsEachBlock(bulk_cipher, bulk_plain')]_vars

\* three blocks went through both directions with a table that is not a
\* bijection, so that decryption does not simply undo encryption
C11_Witness ==
    /\ Len(bulk_input) = 32
    /\ Len(bulk_cipher) = 48
    /\ Len(bulk_plain) = 48
    /\ bulk_sbox = construct_sbox(Circulant(23), 0)
    /\ bulk_plain # padded_data(bulk_input)

(***************************************************************************)
(* C12: in bulk encryption and decryption output block j depends only on   *)
(* input block j, the round keys and the S-box. However the blocks are     *)
(* scheduled and their statements interleaved, a block that has taken all  *)
(* its statements holds in its output slot block j of what the bulk        *)
(* function returns for the whole input, whatever the other blocks have    *)
(* done so far.                                                            *)
(***************************************************************************)
BulkResult ==
    IF il_direction = "encrypt"
    THEN _vector_aes_encrypt(il_input, il_round_keys, il_table)
    ELSE _vector_aes_decrypt(il_input, il_round_keys, il_table)

C12_AnyOrderSameOutput ==
    \A n \in DOMAIN il_out :
        il_out[n] # <<>> => il_out[n] = Block(BulkResult, n)

\* the second of two blocks is finished while the first has not started
C12_Witness ==
    /\ Len(il_pc) = 2
    /\ il_pc[1] = 0
    /\ il_pc[2] = LAST_STEP
    /\ il_out[2] # <<>>

\* two inputs that agree on a block of the padded data give ciphertexts that
\* agree on that block, and two ciphertexts that agree on a block give
\* plaintexts that agree on it
C12_AgreeingBlocksAgree ==
    /\ bulk_cipher # NoBytes /\ bulk_other_cipher # NoBytes
        => \A j \in 1..((Len(bulk_cipher) \div 16)) :
               j <= Len(bulk_other_cipher) \div 16
               /\ Block(padded_data(bulk_input), j) = Block(padded_data(bulk_other), j)
               => Block(bulk_cipher, j) = Block(bulk_other_cipher, j)
    /\ bulk_plain # NoBytes /\ bulk_other_plain # NoBytes
        => \A j \in 1..((Len(bulk_plain) \div 16)) :
               j <= Len(bulk_other_plain) \div 16
               /\ Block(bulk_cipher, j) = Block(bulk_other_cipher, j)
               => Block(bulk_plain, j) = Block(bulk_other_plain, j)

\* the two inputs differ in their first block and agree on their second
C12_AgreeingBlocksWitness ==
    /\ bulk_other_plain # NoBytes
    /\ Len(bulk_input) = 32
    /\ Block(bulk_input, 1) # Block(bulk_other, 1)
    /\ Block(bulk_input, 2) = Block(bulk_other, 2)
    /\ Block(bulk_cipher, 1) # Block(bulk_other_cipher, 1)

(***************************************************************************)
(* C13: for every input of len bytes, bulk encryption produces exactly     *)
(* ceil(len/16) + 1 ciphertext blocks of 16 bytes. As stated this fails    *)
(* for the lengths that are not multiples of 16; what holds is             *)
(* floor(len/16) + 1 blocks.                                               *)
(***************************************************************************)
CeilDiv16(n) == (n + 15) \div 16

C13_CeilPlusOneBlocks ==
    bulk_cipher # NoBytes
    => Len(bulk_cipher) = 16 * (CeilDiv16(Len(bulk_input)) + 1)

C13_FloorPlusOneBlocks ==
    /\ bulk_cipher # NoBytes
        => Len(bulk_cipher) = 16 * ((Len(bulk_input) \div 16) + 1)
    /\ bulk_other_cipher # NoBytes
        => Len(bulk_other_cipher) = 16 * ((Len(bulk_other) \div 16) + 1)

\* an aligned input and an input that is not aligned have both been encrypted
C13_Witness ==
    /\ Len(bulk_input) = 32 /\ Len(bulk_cipher) = 48
    /\ Len(bulk_other) = 35 /\ Len(bulk_other_cipher) = 48

(***************************************************************************)
(* C14: padding before encryption is PKCS-style for every input. The       *)
(* padded length is the smallest multiple of 16 strictly greater than the  *)
(* input length, so an aligned input, the empty one included, gains a full *)
(* block of sixteen bytes of value 16; each of the p appended bytes has    *)
(* value p, 1 <= p <= 16; pkcs7_pad and the inline padding of the bulk     *)
(* engine give the same bytes.                                             *)
(***************************************************************************)
IsPkcsPadded(input, padded) ==
    /\ Len(padded) % 16 = 0
    /\ Len(padded) > Len(input)
    /\ Len(padded) - 16 <= Len(input)
    /\ Len(padded) - Len(input) \in 1..16
    /\ SubSeq(padded, 1, Len(input)) = input
    /\ \A k \in (Len(input) + 1)..Len(padded) : padded[k] = Len(padded) - Len(input)

C14_PkcsStylePadding ==
    /\ pkcs_padded # NoBytes => IsPkcsPadded(pad_input, pkcs_padded)
    /\ inline_padded # NoBytes => IsPkcsPadded(pad_input, inline_padded)
    /\ pkcs_padded # NoBytes /\ inline_padded # NoBytes => pkcs_padded = inline_padded

\* the empty input has gained a full block from both routines
C14_Witness ==
    /\ pad_input = <<>>
    /\ pkcs_padded = bytes_of(16, 16)
    /\ inline_padded = bytes_of(16, 16)

(***************************************************************************)
(* C15: pkcs7_unpad validates before stripping. It returns the data        *)
(* without its last p bytes only when p, the last byte, satisfies          *)
(* 1 <= p <= 16 and p <= len(data) and the last p bytes all equal p; for   *)
(* every other input (empty data, a last byte of 0, a last byte above 16   *)
(* or above the length, a trailing byte that differs) it raises.           *)
(***************************************************************************)
ValidPadding(data) ==
    /\ data # <<>>
    /\ data[Len(data)] \in 1..16
    /\ data[Len(data)] <= Len(data)
    /\ \A k \in (Len(data) - data[Len(data)] + 1)..Len(data) : data[k] = data[Len(data)]

C15_UnpadValidates ==
    unpadded # NotCalled
    => IF ValidPadding(unpad_input)
       THEN unpadded = Return(SubSeq(unpad_input, 1,
                                     Len(unpad_input) - unpad_input[Len(unpad_input)]))
       ELSE unpadded.exc # "none"

\* what pkcs7_unpad does: as the claim says unless the last byte is 0, and
\* for a last byte of 0 it returns the empty byte string
C15_UnpadValidatesUnlessZero ==
    unpadded # NotCalled
    => IF unpad_input # <<>> /\ unpad_input[Len(unpad_input)] = 0
       THEN unpadded = Return(<<>>)
       ELSE IF ValidPadding(unpad_input)
       THEN unpadded = Return(SubSeq(unpad_input, 1,
                                     Len(unpad_input) - unpad_input[Len(unpad_input)]))
       ELSE unpadded.exc = "ValueError"

(***************************************************************************)
(* C16: bulk decryption validates padding. When the decrypted data does    *)
(* not end in valid PKCS padding, as after decrypting with a wrong key or  *)
(* a wrong S-box, decrypt_image reports an error instead of returning      *)
(* bytes: whenever it returns an image, the data it decrypted ended in     *)
(* valid padding.                                                          *)
(***************************************************************************)
\* what _vector_aes_decrypt returned inside the call of decrypt_image
DecryptedData ==
    _vector_aes_decrypt(
        zero_padded(encrypted_image.val.pixels),
        key_expansion(_prepare_key(decrypt_call.key),
                      sbox_of(get_by_id(decrypt_call.sbox_id), decrypt_call.sbox_id)),
        generate_inverse_sbox(
            sbox_of(get_by_id(decrypt_call.sbox_id), decrypt_call.sbox_id)))

C16_DecryptValidatesPadding ==
    decrypted_image.exc = "none" => ValidPadding(DecryptedData)

\* decrypt_image has returned an image for a key other than the one the
\* image was encrypted with, and the image differs from the original
C16_WrongKeyAccepted ==
    /\ decrypted_image.exc = "none"
    /\ decrypt_call.sbox_id = encrypt_call.sbox_id
    /\ decrypt_call.key # encrypt_call.key
    /\ decrypted_image.val.pixels # original_image.pixels

(***************************************************************************)
(* C17: aes_encrypt_block and aes_decrypt_block raise an error and produce *)
(* no output whenever the block is not exactly 16 bytes or the key is not  *)
(* exactly 16 bytes, and the fast variants whenever the block is not       *)
(* exactly 16 bytes; the block cipher never pads or truncates a block or a *)
(* key, so an output exists only for exact lengths and is 16 bytes.        *)
(***************************************************************************)
\* out is 16 bytes when exact holds, and the error with no output otherwise
OutputOnlyIf(exact, out) ==
    IF exact
    THEN out.exc = "none" /\ Len(out.val) = BLOCK_SIZE
    ELSE out = Raise("ValueError")

C17_LengthErrors ==
    /\ blk_enc # NotCalled
        => OutputOnlyIf(Len(blk_data) = 16 /\ Len(blk_key) = 16, blk_enc)
    /\ blk_dec # NotCalled
        => OutputOnlyIf(Len(blk_data) = 16 /\ Len(blk_key) = 16, blk_dec)
    /\ blk_enc_fast # NotCalled => OutputOnlyIf(Len(blk_data) = 16, blk_enc_fast)
    /\ blk_dec_fast # NotCalled => OutputOnlyIf(Len(blk_data) = 16, blk_dec_fast)

\* a block of 16 bytes with a key of 17: the two keyed functions raised and
\* the fast variants returned
C17_Witness ==
    /\ Len(blk_data) = 16
    /\ Len(blk_key) = 17
    /\ blk_enc = Raise("ValueError")
    /\ blk_dec = Raise("ValueError")
    /\ blk_enc_fast.exc = "none"
    /\ blk_dec_fast.exc = "none"

(***************************************************************************)
(* C18: for every 16-byte key and every two different S-boxes s1 # s2,     *)
(* key_expansion(key, s1) and key_expansion(key, s2) are different         *)
(* schedules. As stated this fails: the expansion substitutes only the     *)
(* four bytes of the last word of round keys 0..9, and two tables that     *)
(* agree on those bytes give the same schedule. What holds is that the     *)
(* schedules differ exactly when the tables differ on such a byte.         *)
(***************************************************************************)
C18_DifferentSboxesDifferentSchedules ==
    ks_first # <<>> /\ ks_second # <<>> /\ ks_sbox1 # ks_sbox2
    => ks_first # ks_second

\* the bytes SubWord substitutes in the expansion that gave round_keys
SubstitutedBytes(round_keys) ==
    {round_keys[r][row][4] : r \in 1..10, row \in 1..4}

C18_SchedulesDifferOnSubstitutedBytes ==
    ks_first # <<>> /\ ks_second # <<>>
    => (ks_first # ks_second
        <=> \E b \in SubstitutedBytes(ks_first) :
                sbox_lookup(ks_sbox1, b) # sbox_lookup(ks_sbox2, b))

\* two tables that differ on a byte of the key's own last word
C18_Witness ==
    /\ ks_first # <<>>
    /\ ks_second # <<>>
    /\ ks_first # ks_second
    /\ ks_first[1] = ks_second[1]
    /\ \E j \in 13..16 : sbox_lookup(ks_sbox1, ks_key[j]) # sbox_lookup(ks_sbox2, ks_key[j])

\* two different tables have given the same schedule
C18_SameSchedule ==
    /\ ks_first # <<>>
    /\ ks_first = ks_second
    /\ ks_sbox1 # ks_sbox2


(***************************************************************************)
(* C19                                                                     *)
(***************************************************************************)
\* what the lookup gives on a service whose caches are empty: the table
\* constructed from the catalog's current entry, or the error
FreshLookup(method, sbox_id) ==
    CASE method = "_get_sbox" -> _get_sbox(new_service, sbox_id)
      [] method = "_get_inverse_sbox" -> _get_inverse_sbox(new_service, sbox_id)
      [] method = "_resolve_sbox" ->
             _resolve_sbox(new_aes_service, sbox_id, <<>>, <<>>, 99)

ServedFresh(lookup) ==
    /\ lookup.exc = FreshLookup(lookup.method, lookup.sbox_id).exc
    /\ lookup.val = FreshLookup(lookup.method, lookup.sbox_id).val

\* C19: after any sequence of lookups (_get_sbox, _get_inverse_sbox,
\* _resolve_sbox), clear_cache and catalog reloads, what a lookup returns for
\* an id is the table constructed from the catalog's current matrix for that
\* id: no cached entry is served stale. A lookup leaves the catalog as it is,
\* so the catalog of the state it starts in is the current one.
C19_NeverServedStale ==
    [][cs_calls' # cs_calls => ServedFresh(cs_lookup')]_vars

\* a table is served from a cache after the catalog entry it was built from
\* has been replaced
C19_StaleServed ==
    /\ cs_lookup.exc = "none"
    /\ cs_lookup.sbox_id = "K44"
    /\ _matrices = EditedCatalog
    /\ ~ServedFresh(cs_lookup)

(***************************************************************************)
(* C20                                                                     *)
(***************************************************************************)
\* what the S-box arguments of the call resolve to on the service object
ResolvedCall ==
    _resolve_sbox(svc_aes, svc_call.sbox_id, svc_call.custom_sbox,
                  svc_call.custom_matrix, svc_call.constant)

\* C20: with a key of 16 characters and S-box arguments that name a table,
\* encrypt returns a ciphertext for every text of at most 16 bytes of UTF-8
\* and rejects only longer ones, and decrypt of that ciphertext with the same
\* key and S-box arguments returns the text.
C20_AcceptsBlockAndRoundTrips ==
    /\ (svc_encrypted.exc # "not called" /\ Len(svc_call.key) = 16
        /\ ResolvedCall.exc = "none")
       => (svc_encrypted.exc = "none"
           <=> Len(utf8_encode(svc_plaintext)) <= BLOCK_SIZE)
    /\ svc_decrypted.exc # "not called" => svc_decrypted = Return(svc_plaintext)

\* a text of exactly 16 bytes is rejected although key and S-box are in order
C20_FullBlockRejected ==
    /\ Len(utf8_encode(svc_plaintext)) = BLOCK_SIZE
    /\ Len(utf8_encode(svc_call.key)) = KEY_SIZE
    /\ svc_call.sbox_id = "KAES"
    /\ svc_encrypted.exc = "ValueError"

\* what the code does: a text is accepted exactly when it has at most 15
\* bytes, given a key of 16 characters that are 16 bytes and S-box arguments
\* that name a table; the text comes back when that table is a bijection
C20_BelowBlockRoundTrips ==
    /\ (svc_encrypted.exc # "not called" /\ Len(svc_call.key) = 16
        /\ Len(utf8_encode(svc_call.key)) = KEY_SIZE /\ ResolvedCall.exc = "none")
       => (svc_encrypted.exc = "none"
           <=> Len(utf8_encode(svc_plaintext)) < BLOCK_SIZE)
    /\ (svc_decrypted.exc # "not called" /\ IsBijectiveGrid(ResolvedCall.val))
       => svc_decrypted = Return(svc_plaintext)

\* a text with characters outside ASCII has come back from decrypt
C20_RoundTripReached ==
    /\ svc_decrypted = Return(svc_plaintext)
    /\ Len(utf8_encode(svc_plaintext)) > Len(svc_plaintext)

(***************************************************************************)
(* C21                                                                     *)
(***************************************************************************)
\* decrypt has been called with a caller-supplied table that is not a
\* bijection on 0..255
DecryptedWithCollision ==
    /\ svc_decrypted.exc # "not called"
    /\ svc_call.custom_sbox # <<>>
    /\ ~IsBijectiveGrid(svc_call.custom_sbox)

\* C21: when the caller-supplied S-box is not a bijection on 0..255,
\* AESService.decrypt (which derives the inverse table through
\* aes_decrypt_block and generate_inverse_sbox) ends with an error and
\* returns no plaintext.
C21_CollisionReported ==
    DecryptedWithCollision => svc_decrypted.exc # "none"

\* decrypt has returned a text under a table with a collision
C21_PlaintextReturned ==
    /\ DecryptedWithCollision
    /\ svc_decrypted.exc = "none"

(***************************************************************************)
(* C22                                                                     *)
(***************************************************************************)
\* round r of the specification: SubBytes, ShiftRows, MixColumns,
\* AddRoundKey(r)
FullRound(r) ==
    <<Applied("SubBytes", Keyless), Applied("ShiftRows", Keyless),
      Applied("MixColumns", Keyless), Applied("AddRoundKey", r)>>

\* rounds 1..r in increasing order
RECURSIVE FullRounds(_)
FullRounds(r) == IF r = 0 THEN <<>> ELSE FullRounds(r - 1) \o FullRound(r)

\* Init -> Round 1..9 -> FinalRound
EncryptionSteps ==
    <<Applied("AddRoundKey", 0)>>
    \o FullRounds(9)
    \o <<Applied("SubBytes", Keyless), Applied("ShiftRows", Keyless),
         Applied("AddRoundKey", 10)>>

IsPrefix(a, b) == Len(a) <= Len(b) /\ a = SubSeq(b, 1, Len(a))

\* how many of the steps taken are the transformation op
StepCount(op) == Cardinality({i \in DOMAIN rs_steps : rs_steps[i].op = op})

\* the round keys used so far, in the order of their use
RECURSIVE KeysUsed(_)
KeysUsed(steps) ==
    IF steps = <<>> THEN <<>>
    ELSE (IF Head(steps).op = "AddRoundKey" THEN <<Head(steps).key>> ELSE <<>>)
         \o KeysUsed(Tail(steps))

EncryptionDone == rs_function \in EncryptFunctions /\ rs_pc = "done"

\* C22: a block encryption runs AddRoundKey(0), then rounds 1..9 of SubBytes,
\* ShiftRows, MixColumns, AddRoundKey(r), then SubBytes, ShiftRows,
\* AddRoundKey(10): at every moment control is at a statement of the function
\* and the steps taken are a prefix of that sequence; when it is done there have been 10 SubBytes, 10 ShiftRows, 9
\* MixColumns and 11 AddRoundKey with the round keys 0..10 in order; and it
\* is always done in the end.
C22_EncryptionStepSequence ==
    /\ [](rs_function \in EncryptFunctions
          => /\ rs_pc \in EncryptLabels \cup {"done"}
             /\ IsPrefix(rs_steps, EncryptionSteps)
             /\ rs_pc = "done"
                => /\ rs_steps = EncryptionSteps
                   /\ StepCount("SubBytes") = 10
                   /\ StepCount("ShiftRows") = 10
                   /\ StepCount("MixColumns") = 9
                   /\ StepCount("AddRoundKey") = 11
                   /\ KeysUsed(rs_steps) = [k \in 1..11 |-> k - 1])
    /\ <>(rs_function \in EncryptFunctions => rs_pc = "done")

\* an encryption has run to its end
C22_Witness ==
    /\ EncryptionDone
    /\ Len(rs_steps) = 40
    /\ Len(rs_out) = 16

\* the statement-by-statement run returns what the block function returns
RoundsAgreeWithBlockFunctions ==
    rs_pc = "done"
    => rs_out = CASE rs_function = "aes_encrypt_block" ->
                         aes_encrypt_block(rs_input, rs_key, rs_sbox).val
                  [] rs_function = "aes_encrypt_block_fast" ->
                         aes_encrypt_block_fast(rs_input, rs_sbox, rs_round_keys).val
                  [] rs_function = "aes_decrypt_block" ->
                         aes_decrypt_block(rs_input, rs_key, rs_sbox).val
                  [] rs_function = "aes_decrypt_block_fast" ->
                         aes_decrypt_block_fast(rs_input, rs_inv_sbox,
                                                rs_round_keys).val

(***************************************************************************)
(* C23                                                                     *)
(***************************************************************************)
\* the transformation that undoes a transformation
InverseOp(op) ==
    CASE op = "SubBytes"    -> "InvSubBytes"
      [] op = "ShiftRows"   -> "InvShiftRows"
      [] op = "MixColumns"  -> "InvMixColumns"
      [] op = "AddRoundKey" -> "AddRoundKey"

\* the inverses of the encryption steps, last step first
DecryptionSteps ==
    [i \in 1..Len(EncryptionSteps) |->
        Applied(InverseOp(EncryptionSteps[Len(EncryptionSteps) + 1 - i].op),
                EncryptionSteps[Len(EncryptionSteps) + 1 - i].key)]

\* each step function is undone by its inverse on the 4x4 state s, the round
\* keys being those of the schedule and S a bijection
StepsInvert(s, round_keys, S) ==
    /\ inv_shift_rows(shift_rows(s)) = s
    /\ inv_mix_columns(mix_columns(s)) = s
    /\ \A k \in DOMAIN round_keys :
           add_round_key(add_round_key(s, round_keys[k]), round_keys[k]) = s
    /\ inv_sub_bytes(sub_bytes(s, S), generate_inverse_sbox(S)) = s

\* C23: on every state a block function passes through, inv_shift_rows
\* undoes shift_rows, inv_mix_columns undoes mix_columns, add_round_key
\* undoes itself and, the S-box being a bijection, inv_sub_bytes with the
\* inverse table undoes sub_bytes; and a decryption applies the inverses of
\* the encryption steps in the reverse order, with the round keys 10 down to
\* 0.
C23_DecryptionInvertsStepByStep ==
    /\ (rs_state # <<>> /\ IsBijectiveGrid(rs_sbox))
       => StepsInvert(rs_state, rs_round_keys, rs_sbox)
    /\ rs_function \in DecryptFunctions
       => /\ IsPrefix(rs_steps, DecryptionSteps)
          /\ rs_pc = "done"
             => /\ rs_steps = DecryptionSteps
                /\ KeysUsed(rs_steps) = [k \in 1..11 |-> 11 - k]

\* a decryption has run to its end
C23_Witness ==
    /\ rs_function \in DecryptFunctions
    /\ rs_pc = "done"
    /\ Len(rs_steps) = 40
    /\ IsBijectiveGrid(rs_sbox)


(***************************************************************************)
(* C24: the structure of the key schedule.                                 *)
(***************************************************************************)
\* word i (0..43) of a list of round keys: column (i mod 4) of round key
\* (i div 4)
ScheduleWord(round_keys, i) ==
    [row \in 1..4 |-> round_keys[(i \div 4) + 1][row][(i % 4) + 1]]

\* the word t of the recurrence for word i
ScheduleT(round_keys, i, S) ==
    IF i % 4 # 0
    THEN ScheduleWord(round_keys, i - 1)
    ELSE [j \in 1..4 |->
            IF j = 1
            THEN XOR(sbox_lookup(S, ScheduleWord(round_keys, i - 1)[2]), RCON[i \div 4])
            ELSE sbox_lookup(S, ScheduleWord(round_keys, i - 1)[(j % 4) + 1])]

IsSchedule(round_keys, raw_key, S) ==
    /\ Len(round_keys) = 11
    /\ \A r \in 1..11 :
          /\ Len(round_keys[r]) = 4
          /\ \A row \in 1..4 :
                /\ Len(round_keys[r][row]) = 4
                /\ \A col \in 1..4 : round_keys[r][row][col] \in 0..255
    /\ round_keys[1] = bytes_to_state(raw_key)
    /\ \A i \in 4..43 :
          \A j \in 1..4 :
             ScheduleWord(round_keys, i)[j]
                = XOR(ScheduleWord(round_keys, i - 4)[j], ScheduleT(round_keys, i, S)[j])

\* C24: key_expansion(key, S) returns 11 round keys of 4x4 bytes; round key 0
\* is bytes_to_state(key); for i = 4..43 word w[i] = w[i-4] xor t, with
\* t = w[i-1] when i mod 4 # 0 and otherwise S applied bytewise to w[i-1]
\* rotated left by one byte with RCON[i/4 - 1] XORed into its first byte;
\* column c of round key r is w[4r + c].
C24_ScheduleStructure ==
    /\ ks_first # <<>> => IsSchedule(ks_first, ks_key, ks_sbox1)
    /\ ks_second # <<>> => IsSchedule(ks_second, ks_key, ks_sbox2)

C24_Witness ==
    /\ ks_first # <<>>
    /\ ks_second # <<>>
    /\ ks_first[11] # ks_second[11]


(***************************************************************************)
(* C25: the multiplicative inverse.                                        *)
(***************************************************************************)
\* C25: for every a in 1..255, gf_mul(a, gf_inverse(a)) = 1; gf_inverse(0) = 0;
\* and for every a in 0..255 the table entry get_inverse(a) = INVERSE_TABLE[a]
\* equals gf_inverse(a), which for a # 0 equals gf_pow(a, 254).
C25_InverseIsInverse ==
    gf_pc = "inverted" =>
        /\ gf_x \in 1..255 => gf_inv.product = 1
        /\ gf_x = 0 => gf_inv.gf_inverse = 0
        /\ gf_inv.get_inverse = INVERSE_TABLE[gf_x + 1]
        /\ gf_inv.get_inverse = gf_inv.gf_inverse
        /\ gf_x # 0 => gf_inv.gf_inverse = gf_inv.gf_pow

C25_Witness ==
    /\ gf_pc = "inverted"
    /\ gf_x = 83
    /\ gf_inv.gf_inverse = 202
    /\ gf_inv.product = 1

(***************************************************************************)
(* C26: gf_mul is the product of polynomials over GF(2) modulo 0x11B.      *)
(***************************************************************************)
\* the product of u and v as polynomials over GF(2), not reduced
RECURSIVE PolyProduct(_, _)
PolyProduct(u, v) ==
    IF v = 0 THEN 0
    ELSE XOR(IF v % 2 = 1 THEN u ELSE 0, 2 * PolyProduct(u, v \div 2))

\* w modulo x^8 + x^4 + x^3 + x + 1, w being of degree at most deg
RECURSIVE PolyReduce(_, _)
PolyReduce(w, deg) ==
    IF deg < 8 THEN w
    ELSE PolyReduce(IF (w \div (2 ^ deg)) % 2 = 1
                    THEN XOR(w, 283 * (2 ^ (deg - 8))) ELSE w,
                    deg - 1)

\* C26: for all a, b in 0..255, gf_mul(a, b) terminates and returns a value
\* in 0..255 equal to the product of a and b as polynomials over GF(2)
\* reduced modulo x^8+x^4+x^3+x+1; every intermediate value of the shifted
\* operand stays below 256 after reduction.
C26_MulIsPolynomialProduct ==
    /\ [](gf_pc \in {"while", "return"} => gf_st.a \in 0..255)
    /\ [](gf_pc = "return" =>
            /\ gf_st.result \in 0..255
            /\ gf_st.result = PolyReduce(PolyProduct(gf_x, gf_y), 14)
            /\ gf_mul(gf_x, gf_y) = gf_st.result)
    /\ [](gf_pc = "while" => <>(gf_pc = "return"))

C26_Witness ==
    /\ gf_pc = "return"
    /\ gf_x = 87
    /\ gf_y = 131
    /\ gf_st.result = 193
    /\ gf_passes = 8


(***************************************************************************)
(* C27: correlation immunity is reported as 0.                             *)
(***************************************************************************)
\* output bit number bit of the table t, as a truth table
BitFunction(t, bit) == list([k \in 1..256 |-> (t[k] \div (2 ^ bit)) % 2])

\* the coefficients of output bit number bit at the masks 1, 2, 4, .., 128
Weight1Coefficients(t, bit) ==
    {walsh_hadamard_transform(BitFunction(t, bit))[(2 ^ j) + 1] : j \in 0..7}

\* C27: compute_correlation_immunity returns 0 for every S-box: it inspects
\* only the weight-1 Walsh coefficients of the 8 output-bit functions,
\* returns 0 when any of them is nonzero, and also returns 0 when all of
\* them are zero.
C27_ImmunityIsZero ==
    ci_result # NotReturned =>
        /\ ci_result = Return(0)
        /\ ci_return \in {"in loop", "after loop"}
        /\ ci_return = "in loop" <=>
              \E bit \in 0..7 : Weight1Coefficients(ci_sbox, bit) # {0}
        /\ ci_return = "in loop" =>
              /\ Weight1Coefficients(ci_sbox, ci_bit) # {0}
              /\ \A bit \in 0..(ci_bit - 1) : Weight1Coefficients(ci_sbox, bit) = {0}

C27_Witness ==
    /\ ci_result = Return(0)
    /\ ci_return = "after loop"
    /\ ci_sbox = AffineMap(0)
    /\ \A bit \in 0..7 : Weight1Coefficients(ci_sbox, bit) = {0}


(***************************************************************************)
(* C28: the image round trip on a buffer that is not block-aligned.        *)
(***************************************************************************)
\* decrypt_image has run on the output of encrypt_image with the same key and
\* the same S-box id, the S-box is a bijection and the buffer length is not a
\* multiple of 16
UnalignedRoundTripDone ==
    /\ decrypted_image.exc # "not called"
    /\ decrypt_call = encrypt_call
    /\ Len(original_image.pixels) % 16 # 0
    /\ IsBijectiveGrid(img_service._sbox_cache[encrypt_call.sbox_id])

\* the bytes of the complete 16-byte blocks of a buffer, and the rest
CompleteBlocks(pixels) == SubSeq(pixels, 1, 16 * (Len(pixels) \div 16))

FinalBytes(pixels) == SubSeq(pixels, 16 * (Len(pixels) \div 16) + 1, Len(pixels))

\* the whole ciphertext of a pixel buffer under the key and id of a call
FullCiphertext(pixels, call) ==
    _vector_aes_encrypt(
        pixels,
        key_expansion(_prepare_key(call.key), img_service._sbox_cache[call.sbox_id]),
        img_service._sbox_cache[call.sbox_id])

\* C28: when the pixel buffer length L is not a multiple of 16, image
\* encryption keeps only the first L bytes of the ciphertext and decryption
\* zero-pads them to a block boundary; every complete 16-byte block (the
\* first 16*floor(L/16) bytes) is still recovered exactly. That there are
\* buffers whose final L mod 16 bytes are not recovered is the state
\* C28_Witness.
C28_CompleteBlocksRecovered ==
    UnalignedRoundTripDone =>
        /\ encrypted_image.exc = "none"
        /\ Len(FullCiphertext(original_image.pixels, encrypt_call))
              > Len(original_image.pixels)
        /\ encrypted_image.val.pixels
              = SubSeq(FullCiphertext(original_image.pixels, encrypt_call),
                       1, Len(original_image.pixels))
        /\ decrypted_image.exc = "none"
        /\ Len(decrypted_image.val.pixels) = Len(original_image.pixels)
        /\ CompleteBlocks(decrypted_image.val.pixels)
              = CompleteBlocks(original_image.pixels)

C28_Witness ==
    /\ UnalignedRoundTripDone
    /\ Len(original_image.pixels) = 18
    /\ CompleteBlocks(decrypted_image.val.pixels) = CompleteBlocks(original_image.pixels)
    /\ FinalBytes(decrypted_image.val.pixels) # FinalBytes(original_image.pixels)


(***************************************************************************)
(* C29: one catalog id, one S-box in both services.                        *)
(***************************************************************************)
\* the ids both services have resolved and hold a table for
ResolvedByBoth == DOMAIN cs_image._sbox_cache \cap DOMAIN cs_aes._sbox_cache

\* C29: for every catalog id that has matrix data, the S-box
\* AESService._resolve_sbox(sbox_id=id) resolves equals the S-box
\* ImageEncryptionService._get_sbox(id) resolves (same matrix and same affine
\* constant), so both services use the same table and the same key schedule.
C29_BothServicesSameSbox ==
    \A id \in ResolvedByBoth :
        /\ cs_aes._sbox_cache[id] = cs_image._sbox_cache[id]
        /\ \A s \in 0..MaxScheduleSeed :
              key_expansion(SampleKey(s), cs_aes._sbox_cache[id])
                 = key_expansion(SampleKey(s), cs_image._sbox_cache[id])

\* both services resolved K44 on the catalog as first loaded, nothing else
\* happened, and the tables are built with the constants 0x63 and 0x00
C29_DifferentConstants ==
    /\ _matrices = Catalog
    /\ cs_calls = 2
    /\ "K44" \in ResolvedByBoth
    /\ cs_aes._sbox_cache["K44"] = construct_sbox(Catalog["K44"].matrix, 99)
    /\ cs_image._sbox_cache["K44"] = construct_sbox(Catalog["K44"].matrix, 0)
    /\ cs_aes._sbox_cache["K44"] # cs_image._sbox_cache["K44"]

\* on KAES the two services agree as long as the catalog entry is the same
C29_SameSboxForKAES ==
    "KAES" \in ResolvedByBoth =>
        cs_aes._sbox_cache["KAES"] = cs_image._sbox_cache["KAES"]


(***************************************************************************)
(* C30: the two linear metrics agree.                                      *)
(***************************************************************************)
LinearMetricsReturned == lin_lap.exc = "none" /\ lin_nl.exc = "none"

\* C30: for every bijective S-box s, compute_lap(s) * 512 =
\* 256 - 2 * compute_nonlinearity(s): the largest absolute correlation over
\* nonzero input and output masks used by LAP equals the largest absolute
\* Walsh coefficient used by non-linearity.
C30_LinearMetricsAgree ==
    LinearMetricsReturned =>
        lin_lap.val.num * 512 = (256 - 2 * lin_nl.val) * lin_lap.val.den

\* the same on the HEAD side of walsh_hadamard_transform
C30_LinearMetricsAgreeOnHEAD ==
    LinearMetricsReturned /\ wht_side = "HEAD" =>
        lin_lap.val.num * 512 = (256 - 2 * lin_nl.val) * lin_lap.val.den

\* the AES S-box on the other side: LAP is 32/512 and non-linearity 118
C30_DisagreeOnAES ==
    /\ LinearMetricsReturned
    /\ wht_side = "c1b06dd"
    /\ lin_sbox = AESSboxFlat
    /\ lin_lap.val = [num |-> 32, den |-> 512]
    /\ lin_nl.val = 118

=============================================================================
